---- MODULE Spec2Model ----
(***************************************************************************)
(* pvmfw device-tree sanitization (src/pvmfw/src/fdt.rs) over the libfdt   *)
(* wrapper (src/libs/libfdt/src/lib.rs), the open-handle tables of zipfuse *)
(* (src/zipfuse/src/main.rs) and the descriptor collection of pvmfw/avb    *)
(* (src/pvmfw/avb/src/descriptor/collection.rs).                           *)
(*                                                                         *)
(* 64-bit quantities (u64, and usize on aarch64) are kept at full width as *)
(* four 16-bit limbs, most significant first, so that every address, size  *)
(* and overflow of the source has its real value.  Option<T> is a sequence *)
(* of length 0 (None) or 1 (Some).  Result<T, E> is <<"Ok", v>> or         *)
(* <<"Err", e>>.                                                           *)
(***************************************************************************)
EXTENDS Integers, Sequences, FiniteSets, TLC

VARIABLES
    pc,        \* position of sanitize_device_tree, "call"/"returned" for a direct call,
               \* or "serving" for zipfuse
    input,     \* the bytes handed to sanitize_device_tree (never written; kept to compare)
    fdt,       \* the content of the buffer `fdt: &mut [u8]`
    vm_dtbo,   \* Option: the VM DTBO blob
    info,      \* the DeviceTreeInfo fields read so far
    result,    \* Option: what sanitize_device_tree returned
    failed_at, \* Option: the step that returned the error
    call,      \* a direct call of one validation function: [fn, args]
    ret,       \* Option: what the direct call returned
    open_files, \* zipfuse: ZipFuse::open_files, handle -> OpenFile
    open_dirs,  \* zipfuse: ZipFuse::open_dirs, handle -> OpenDirBuf
    history,    \* zipfuse: per inode, how many calls of each handler returned Ok so far
    overflow_checks, \* pvmfw: whether the build checks integer overflow (the source
                \* does not fix it; an overflowing operation panics or wraps)
    template    \* pvmfw: the tree compiled in as pvmfw_fdt_template::RAW (the build
                \* generates it; the source does not hold it)

vars == <<pc, input, fdt, vm_dtbo, info, result, failed_at, call, ret,
          open_files, open_dirs, history, overflow_checks, template>>

None == <<>>
Some(x) == <<x>>
IsSome(o) == Len(o) = 1
IsNone(o) == Len(o) = 0
Unwrap(o) == o[1]

Ok(v) == <<"Ok", v>>
Err(e) == <<"Err", e>>
IsOk(r) == r[1] = "Ok"
IsErr(r) == r[1] = "Err"
Val(r) == r[2]

\* A panic of the Rust runtime: the function does not return, the panic unwinds through
\* its callers
Panic == <<"Panic">>
IsPanic(r) == r[1] = "Panic"

(***************************************************************************)
(* u64 / usize arithmetic on limbs.                                        *)
(***************************************************************************)
Limb == 2 ^ 16

U64Zero == <<0, 0, 0, 0>>
U64Max == <<Limb - 1, Limb - 1, Limb - 1, Limb - 1>>

\* The u64 with value n, for 0 <= n < 2^31.
U64(n) == <<0, 0, n \div Limb, n % Limb>>

\* The u64 with value hi * 2^32 + lo, for hi < 2^16 and 0 <= lo < 2^31.
U64HiLo(hi, lo) == <<0, hi, lo \div Limb, lo % Limb>>

\* The value of a u64 below 2^31 (u32::try_from(..).unwrap(), usize as a count)
U64ToNat(a) == a[3] * Limb + a[4]

U64Lt(a, b) == \E i \in 1..4 : a[i] < b[i] /\ \A j \in 1..(i - 1) : a[j] = b[j]
U64Le(a, b) == a = b \/ U64Lt(a, b)

\* core::cmp::max / min on u64
max(a, b) == IF U64Lt(a, b) THEN b ELSE a
min(a, b) == IF U64Lt(b, a) THEN b ELSE a

\* a + b with the carry out of bit 63
AddWithCarry(a, b) ==
    LET s4 == a[4] + b[4]
        s3 == a[3] + b[3] + (s4 \div Limb)
        s2 == a[2] + b[2] + (s3 \div Limb)
        s1 == a[1] + b[1] + (s2 \div Limb)
    IN  [carry |-> s1 \div Limb,
         sum |-> <<s1 % Limb, s2 % Limb, s3 % Limb, s4 % Limb>>]

\* u64::checked_add / usize::checked_add
checked_add(a, b) ==
    LET r == AddWithCarry(a, b) IN IF r.carry = 0 THEN Some(r.sum) ELSE None

\* a - b modulo 2^64, with the borrow out of bit 63
SubWithBorrow(a, b) ==
    LET d4 == a[4] - b[4]
        b4 == IF d4 < 0 THEN 1 ELSE 0
        d3 == a[3] - b[3] - b4
        b3 == IF d3 < 0 THEN 1 ELSE 0
        d2 == a[2] - b[2] - b3
        b2 == IF d2 < 0 THEN 1 ELSE 0
        d1 == a[1] - b[1] - b2
        b1 == IF d1 < 0 THEN 1 ELSE 0
    IN  [borrow |-> b1,
         diff |-> <<d1 + b1 * Limb, d2 + b2 * Limb, d3 + b3 * Limb, d4 + b4 * Limb>>]

\* usize::checked_mul, by long multiplication on limbs
checked_mul(a, b) ==
    LET D(x, i) == x[4 - i]                      \* limb i, least significant = 0
        Col(k) == LET I == {i \in 0..3 : k - i \in 0..3}
                      P[S \in SUBSET I] ==
                          IF S = {} THEN 0
                          ELSE LET i == CHOOSE x \in S : TRUE
                               IN  D(a, i) * D(b, k - i) + P[S \ {i}]
                  IN  P[I]
        t0 == Col(0)
        t1 == Col(1) + (t0 \div Limb)
        t2 == Col(2) + (t1 \div Limb)
        t3 == Col(3) + (t2 \div Limb)
        t4 == Col(4) + (t3 \div Limb)
        t5 == Col(5) + (t4 \div Limb)
        t6 == Col(6) + (t5 \div Limb)
    IN  IF t4 % Limb = 0 /\ t5 % Limb = 0 /\ t6 % Limb = 0 /\ t6 \div Limb = 0
        THEN Some(<<t3 % Limb, t2 % Limb, t1 % Limb, t0 % Limb>>)
        ELSE None

\* a % m for a divisor 0 < m < 2^15
U64Rem(a, m) ==
    LET r1 == a[1] % m
        r2 == (r1 * Limb + a[2]) % m
        r3 == (r2 * Limb + a[3]) % m
    IN  (r3 * Limb + a[4]) % m

(***************************************************************************)
(* core::ops::Range<usize>                                                 *)
(***************************************************************************)
Range(s, e) == [start |-> s, end |-> e]

\* Range::len(): end - start, or 0 for an empty range
RangeLen(r) == IF U64Lt(r.start, r.end) THEN SubWithBorrow(r.end, r.start).diff ELSE U64Zero

(***************************************************************************)
(* Platform constants.                                                     *)
(***************************************************************************)
SIZE_4KB == 4096
GUEST_PAGE_SIZE == SIZE_4KB

\* vmbase::layout::crosvm::MEM_START = 0x8000_0000
MEM_START == <<0, 0, 32768, 0>>

\* vmbase::layout::MAX_VIRT_ADDR = 1 << 40
MAX_VIRT_ADDR == <<0, 2 ^ 8, 0, 0>>

(***************************************************************************)
(* Validation functions of src/pvmfw/src/fdt.rs.  Each returns Ok(<<>>) or *)
(* the error of its first failing test, in the order of the source.        *)
(***************************************************************************)
Unit == <<>>
InvalidFdt == Err("InvalidFdt")

\* DeviceTreeInfo::gic_patched_size
GIC_REDIST_SIZE_PER_CPU == U64(32 * SIZE_4KB)
gic_patched_size(num_cpus) == checked_mul(GIC_REDIST_SIZE_PER_CPU, num_cpus)

\* A validate_num_cpus without the test for zero
validate_num_cpus_accepting_zero(num_cpus) ==
    IF IsNone(gic_patched_size(num_cpus))
    THEN Err(<<"InvalidCpuCount", num_cpus>>)
    ELSE Ok(Unit)

\* validate_num_cpus
validate_num_cpus(num_cpus) ==
    IF num_cpus = U64Zero \/ IsNone(gic_patched_size(num_cpus))
    THEN Err(<<"InvalidCpuCount", num_cpus>>)
    ELSE Ok(Unit)

\* fdtpci::PciMemoryFlags: the first cell of a PCI address, decoded
range_type(mem_flags) == mem_flags.range_type
prefetchable(mem_flags) == mem_flags.prefetchable

PciRangeType == {"ConfigurationSpace", "Io", "Memory32", "Memory64"}

\* PciAddrRange = AddressRange<(u32, u64), u64, u64>
PciAddrRange(flags, bus_addr, cpu_addr, size) ==
    [addr |-> <<flags, bus_addr>>, parent_addr |-> cpu_addr, size |-> size]

\* A validate_pci_addr_range without the test against MAX_VIRT_ADDR
validate_pci_addr_range_no_ceiling(range, memory_range) ==
    LET mem_flags == range.addr[1]
        bus_addr == range.addr[2]
        cpu_addr == range.parent_addr
        size == range.size
        bus_end == checked_add(bus_addr, size)
    IN  IF range_type(mem_flags) # "Memory64" THEN InvalidFdt
        ELSE IF prefetchable(mem_flags) THEN InvalidFdt
        ELSE IF bus_addr # cpu_addr THEN InvalidFdt
        ELSE IF IsNone(bus_end) THEN InvalidFdt
        ELSE IF U64Lt(max(bus_addr, memory_range.start), min(Unwrap(bus_end), memory_range.end))
             THEN InvalidFdt
        ELSE Ok(Unit)

\* validate_pci_addr_range
validate_pci_addr_range(range, memory_range) ==
    LET mem_flags == range.addr[1]
        bus_addr == range.addr[2]
        cpu_addr == range.parent_addr
        size == range.size
        bus_end == checked_add(bus_addr, size)
        memory_start == memory_range.start
        memory_end == memory_range.end
    IN  IF range_type(mem_flags) # "Memory64" THEN InvalidFdt
        ELSE IF prefetchable(mem_flags) THEN InvalidFdt
        ELSE IF bus_addr # cpu_addr THEN InvalidFdt
        ELSE IF IsNone(bus_end) THEN InvalidFdt
        ELSE IF U64Lt(MAX_VIRT_ADDR, Unwrap(bus_end)) THEN InvalidFdt
        ELSE IF U64Lt(max(bus_addr, memory_start), min(Unwrap(bus_end), memory_end))
             THEN InvalidFdt
        ELSE Ok(Unit)

IRQ_MASK_CELLS == 4
IRQ_MAP_CELLS == 10
MAX_IRQS == 10

IRQ_MASK_ADDR_HI == 63488
IRQ_MASK_ADDR_ME == 0
IRQ_MASK_ADDR_LO == 0
IRQ_MASK_ANY_IRQ == 7
EXPECTED == <<IRQ_MASK_ADDR_HI, IRQ_MASK_ADDR_ME, IRQ_MASK_ADDR_LO, IRQ_MASK_ANY_IRQ>>

\* A validate_pci_irq_mask that compares the three address cells only
validate_pci_irq_mask_addr_only(irq_mask) ==
    IF SubSeq(irq_mask, 1, 3) # SubSeq(EXPECTED, 1, 3) THEN InvalidFdt ELSE Ok(Unit)

\* validate_pci_irq_mask
validate_pci_irq_mask(irq_mask) ==
    IF irq_mask # EXPECTED THEN InvalidFdt ELSE Ok(Unit)

PCI_DEVICE_IDX == 11
PCI_IRQ_ADDR_ME == 0
PCI_IRQ_ADDR_LO == 0
PCI_IRQ_INTC == 1
AARCH64_IRQ_BASE == 4
GIC_SPI == 0
IRQ_TYPE_LEVEL_HIGH == 4

\* A validate_pci_irq_map without the test of the GIC interrupt number
validate_pci_irq_map_fixed_irq(irq_map, idx) ==
    LET phys_hi == (2 ^ PCI_DEVICE_IDX) * (idx + 1)   \* below 2^32 for idx < 2^21 - 1
    IN  IF <<irq_map[1], irq_map[2], irq_map[3]>> # <<phys_hi, PCI_IRQ_ADDR_ME, PCI_IRQ_ADDR_LO>>
        THEN InvalidFdt
        ELSE IF irq_map[4] # PCI_IRQ_INTC THEN InvalidFdt
        ELSE IF <<irq_map[6], irq_map[7]>> # <<0, 0>> THEN InvalidFdt
        ELSE IF irq_map[8] # GIC_SPI THEN InvalidFdt
        ELSE IF irq_map[10] # IRQ_TYPE_LEVEL_HIGH THEN InvalidFdt
        ELSE Ok(Unit)

\* irq_map[k] of the source is irq_map[k + 1] here (sequences start at 1)
validate_pci_irq_map(irq_map, idx) ==
    LET pci_addr == <<irq_map[1], irq_map[2], irq_map[3]>>
        pci_irq_number == irq_map[4]
        gic_addr == <<irq_map[6], irq_map[7]>>
        gic_peripheral_interrupt_type == irq_map[8]
        gic_irq_number == irq_map[9]
        gic_irq_type == irq_map[10]
        phys_hi == (2 ^ PCI_DEVICE_IDX) * (idx + 1)   \* below 2^32 for idx < 2^21 - 1
        expected_pci_addr == <<phys_hi, PCI_IRQ_ADDR_ME, PCI_IRQ_ADDR_LO>>
        irq_nr == AARCH64_IRQ_BASE + idx
    IN  IF pci_addr # expected_pci_addr THEN InvalidFdt
        ELSE IF pci_irq_number # PCI_IRQ_INTC THEN InvalidFdt
        ELSE IF gic_addr # <<0, 0>> THEN InvalidFdt
        ELSE IF gic_peripheral_interrupt_type # GIC_SPI THEN InvalidFdt
        ELSE IF gic_irq_number # irq_nr THEN InvalidFdt
        ELSE IF gic_irq_type # IRQ_TYPE_LEVEL_HIGH THEN InvalidFdt
        ELSE Ok(Unit)

\* validate_pci_info: the first `?` that sees an error returns it, and every error of
\* the three validate functions is InvalidFdt
validate_pci_info(pci_info, memory_range) ==
    IF \E i \in 1..Len(pci_info.ranges) :
           IsErr(validate_pci_addr_range(pci_info.ranges[i], memory_range))
    THEN InvalidFdt
    ELSE IF \E i \in 1..Len(pci_info.irq_masks) :
                IsErr(validate_pci_irq_mask(pci_info.irq_masks[i]))
    THEN InvalidFdt
    ELSE IF \E i \in 1..Len(pci_info.irq_maps) :
                IsErr(validate_pci_irq_map(pci_info.irq_maps[i], i - 1))
    THEN InvalidFdt
    ELSE Ok(Unit)

\* vmbase::fdt::SwiotlbInfo { addr: Option<usize>, size: usize, align: Option<usize> }
SwiotlbInfo(addr, size, align) == [addr |-> addr, size |-> size, align |-> align]

\* SwiotlbInfo::fixed_range: addr.map(|addr| addr..addr + size)
fixed_range(swiotlb_info) ==
    IF IsSome(swiotlb_info.addr)
    THEN Some(Range(Unwrap(swiotlb_info.addr),
                    AddWithCarry(Unwrap(swiotlb_info.addr), swiotlb_info.size).sum))
    ELSE None

\* vmbase::util::RangeExt::is_within
is_within(range, other) == U64Le(other.start, range.start) /\ U64Le(range.end, other.end)

\* A validate_swiotlb_info without the checked_add of address and size
validate_swiotlb_info_no_overflow_check(swiotlb_info, memory) ==
    LET size == swiotlb_info.size
        align == swiotlb_info.align
    IN  IF size = U64Zero \/ U64Rem(size, GUEST_PAGE_SIZE) # 0 THEN InvalidFdt
        ELSE IF IsSome(align) /\ U64Rem(Unwrap(align), GUEST_PAGE_SIZE) # 0 THEN InvalidFdt
        ELSE IF IsSome(fixed_range(swiotlb_info))
                /\ ~is_within(Unwrap(fixed_range(swiotlb_info)), memory) THEN InvalidFdt
        ELSE Ok(Unit)

\* validate_swiotlb_info
validate_swiotlb_info(swiotlb_info, memory) ==
    LET size == swiotlb_info.size
        align == swiotlb_info.align
    IN  IF size = U64Zero \/ U64Rem(size, GUEST_PAGE_SIZE) # 0 THEN InvalidFdt
        ELSE IF IsSome(align) /\ U64Rem(Unwrap(align), GUEST_PAGE_SIZE) # 0 THEN InvalidFdt
        ELSE IF IsSome(swiotlb_info.addr)
                /\ IsNone(checked_add(Unwrap(swiotlb_info.addr), size)) THEN InvalidFdt
        ELSE IF IsSome(fixed_range(swiotlb_info))
                /\ ~is_within(Unwrap(fixed_range(swiotlb_info)), memory) THEN InvalidFdt
        ELSE Ok(Unit)

(***************************************************************************)
(* The device tree, as far as pvmfw reads and writes it.  A tree is a      *)
(* record of the nodes fdt.rs looks up; a node is a record of its          *)
(* properties; an absent node or property is None.                         *)
(*   check_full   what fdt_check_full says of the blob                     *)
(*   config       /config: kernel-address, kernel-size                     *)
(*   chosen       /chosen: linux,initrd-start, linux,initrd-end, bootargs  *)
(*   memory       /memory: device_type, reg (address/size entries)         *)
(*   cpus         the "arm,arm-v8"-compatible nodes, in document order     *)
(*   pci          the first "pci-host-cam-generic" node: ranges,           *)
(*                interrupt-map-mask, interrupt-map (cells)                *)
(*   serial       the "ns16550a" nodes in document order: reg entries      *)
(*   swiotlb      the first "restricted-dma-pool" node: reg, size,         *)
(*                alignment                                                *)
(*   gic          the first "arm,gic-v3" node: reg entries                 *)
(*   timer        the first "arm,armv8-timer" node: interrupts (cells)     *)
(*   avf          /avf: vendor_public_key                                  *)
(*   overlay      what an applied VM DTBO added                            *)
(*   other        every other node and property                            *)
(*   slash_avf    the child of the root whose name is the four bytes      *)
(*                "/avf", which no path reaches: vendor_public_key         *)
(*   unpacked     whether totalsize covers the whole buffer                *)
(*   used         the bytes the blob takes: header, reservation map,       *)
(*                structure block and strings block                        *)
(*   buffer_len   the length in bytes of the slice that holds the tree     *)
(***************************************************************************)

\* A property holding one big-endian u32: its byte length and value
PropU32(v) == [len |-> 4, val |-> v]

\* FdtNode::getprop_u32 on an Option<property>
getprop_u32(prop) ==
    IF IsNone(prop) THEN Ok(None)
    ELSE IF Unwrap(prop).len # 4 THEN Err("BadValue")
    ELSE Ok(Some(Unwrap(prop).val))

\* FdtNode::getprop_str: the bytes must be one NUL-terminated string
getprop_str(prop) ==
    IF IsNone(prop) THEN Ok(None)
    ELSE IF ~Unwrap(prop).nul_terminated THEN Err("BadValue")
    ELSE Ok(Some(Unwrap(prop).text))

\* A read_kernel_range_from for which a tree without /config is an error
read_kernel_range_from_requiring_config(t) ==
    IF IsNone(t.config) THEN Err("NotFound")
    ELSE LET addr == getprop_u32(Unwrap(t.config).kernel_address)
             size == getprop_u32(Unwrap(t.config).kernel_size)
         IN  IF IsErr(addr) THEN addr
             ELSE IF IsErr(size) THEN size
             ELSE IF IsSome(Val(addr)) /\ IsSome(Val(size))
                  THEN Ok(Some(Range(U64(Unwrap(Val(addr))),
                                     AddWithCarry(U64(Unwrap(Val(addr))),
                                                  U64(Unwrap(Val(size)))).sum)))
                  ELSE Err("NotFound")

\* read_kernel_range_from
read_kernel_range_from(t) ==
    IF IsNone(t.config) THEN Ok(None)
    ELSE LET config == Unwrap(t.config)
             addr == getprop_u32(config.kernel_address)
             size == getprop_u32(config.kernel_size)
         IN  IF IsErr(addr) THEN addr
             ELSE IF IsErr(size) THEN size
             ELSE IF IsSome(Val(addr)) /\ IsSome(Val(size))
                  THEN Ok(Some(Range(U64(Unwrap(Val(addr))),
                                     AddWithCarry(U64(Unwrap(Val(addr))),
                                                  U64(Unwrap(Val(size)))).sum)))
                  ELSE Ok(None)

\* read_initrd_range_from
read_initrd_range_from(t) ==
    IF IsNone(t.chosen) THEN Ok(None)
    ELSE LET chosen == Unwrap(t.chosen)
             start == getprop_u32(chosen.initrd_start)
             end == getprop_u32(chosen.initrd_end)
         IN  IF IsErr(start) THEN start
             ELSE IF IsErr(end) THEN end
             ELSE IF IsSome(Val(start)) /\ IsSome(Val(end))
                  THEN Ok(Some(Range(U64(Unwrap(Val(start))), U64(Unwrap(Val(end))))))
                  ELSE Ok(None)

\* read_bootargs_from
read_bootargs_from(t) ==
    IF IsNone(t.chosen) THEN Ok(None)
    ELSE getprop_str(Unwrap(t.chosen).bootargs)

\* A reg entry: address and size
Reg(addr, size) == [addr |-> addr, size |-> size]

\* MemRegIterator: each reg entry as the range addr..addr + size
MemRegIterator(reg) == [i \in 1..Len(reg) |-> Range(reg[i].addr, AddWithCarry(reg[i].addr, reg[i].size).sum)]

\* Fdt::memory
memory(t) ==
    IF IsNone(t.memory) THEN Err("NotFound")
    ELSE LET node == Unwrap(t.memory)
         IN  IF node.device_type # Some("memory") THEN Err("BadValue")
             ELSE IF IsNone(node.reg) THEN Err("BadValue")
             ELSE Ok(MemRegIterator(Unwrap(node.reg)))

\* A read_and_validate_memory_range that fails on a second range instead of warning
read_and_validate_memory_range_one_range_only(t) ==
    IF IsErr(memory(t)) THEN InvalidFdt
    ELSE LET ranges == Val(memory(t))
         IN  IF Len(ranges) # 1 THEN InvalidFdt
             ELSE IF ranges[1].start # MEM_START THEN InvalidFdt
             ELSE IF U64Rem(RangeLen(ranges[1]), GUEST_PAGE_SIZE) # 0 THEN InvalidFdt
             ELSE IF RangeLen(ranges[1]) = U64Zero THEN InvalidFdt
             ELSE Ok(ranges[1])

\* read_and_validate_memory_range
read_and_validate_memory_range(t) ==
    IF IsErr(memory(t)) THEN InvalidFdt
    ELSE LET ranges == Val(memory(t))      \* `memory`, the iterator
         IN  IF Len(ranges) = 0 THEN InvalidFdt
             ELSE LET range == ranges[1]
                      \* the second memory.next() only logs a warning
                      base == range.start
                      size == RangeLen(range)
                  IN  IF base # MEM_START THEN InvalidFdt
                      ELSE IF U64Rem(size, GUEST_PAGE_SIZE) # 0 THEN InvalidFdt
                      ELSE IF size = U64Zero THEN InvalidFdt
                      ELSE Ok(range)

(***************************************************************************)
(* Deleting a node while searching for the next compatible one.  The tree  *)
(* is the sequence of its node slots in document order; a slot keeps its   *)
(* place (its offset) for ever, since a deletion overwrites bytes with     *)
(* FDT_NOP and moves nothing.  A slot is                                   *)
(*   depth       the depth of the node below the root                      *)
(*   compatible  whether the node is compatible with the searched string   *)
(*   live        FALSE once the slot has been overwritten with FDT_NOP     *)
(* The subtree of a node is the run of deeper slots that follows it.       *)
(***************************************************************************)
\* Whether slot j lies in the subtree of the node at slot i, the node excluded
InSubtree(nodes, i, j) ==
    /\ i < j
    /\ j <= Len(nodes)
    /\ \A k \in (i + 1)..j : nodes[k].depth > nodes[i].depth

\* fdt_node_offset_by_compatible: the first node after startoffset that is compatible;
\* tombstoned slots hold no node.  0 stands for -FDT_ERR_NOTFOUND, and the startoffset 0
\* for the offset of the root.
fdt_node_offset_by_compatible(nodes, startoffset) ==
    IF \E j \in (startoffset + 1)..Len(nodes) : nodes[j].live /\ nodes[j].compatible
    THEN CHOOSE j \in (startoffset + 1)..Len(nodes) :
             /\ nodes[j].live /\ nodes[j].compatible
             /\ \A k \in (startoffset + 1)..(j - 1) : ~(nodes[k].live /\ nodes[k].compatible)
    ELSE 0

\* fdt_nop_node: the node, its properties and its subnodes become FDT_NOP
fdt_nop_node(nodes, offset) ==
    [j \in 1..Len(nodes) |->
        IF j = offset \/ InSubtree(nodes, offset, j)
        THEN [nodes[j] EXCEPT !.live = FALSE]
        ELSE nodes[j]]

\* A delete_and_next_compatible that tombstones the node and keeps its subnodes
delete_and_next_compatible_keeping_subtree(nodes, offset) ==
    LET next_offset == fdt_node_offset_by_compatible(nodes, offset)
    IN  IF ~nodes[offset].live THEN [result |-> Err("BadOffset"), nodes |-> nodes]
        ELSE IF next_offset = offset THEN [result |-> Err("Internal"), nodes |-> nodes]
        ELSE [result |-> Ok(IF next_offset = 0 THEN None ELSE Some(next_offset)),
              nodes |-> [nodes EXCEPT ![offset].live = FALSE]]

\* FdtNodeMut::delete_and_next_compatible.  The search starts at the offset of the node:
\* fdt_node_offset_by_compatible returns -FDT_ERR_BADOFFSET when no node begins there,
\* which is so once the slot was overwritten with FDT_NOP.
delete_and_next_compatible(nodes, offset) ==
    LET next_offset == fdt_node_offset_by_compatible(nodes, offset)
    IN  IF ~nodes[offset].live THEN [result |-> Err("BadOffset"), nodes |-> nodes]
        ELSE IF next_offset = offset THEN [result |-> Err("Internal"), nodes |-> nodes]
        ELSE [result |-> Ok(IF next_offset = 0 THEN None ELSE Some(next_offset)),
              nodes |-> fdt_nop_node(nodes, offset)]

\* The compatible nodes of the tree, and how many they are
CompatibleNodes(nodes) == {j \in 1..Len(nodes) : nodes[j].live /\ nodes[j].compatible}
NumCompatible(nodes) == Cardinality(CompatibleNodes(nodes))

\* A node compatible with "arm,arm-v8" below the root, and n of them in a row
CpuNode == [depth |-> 1, compatible |-> TRUE, live |-> TRUE]
CpuNodes(n) == [i \in 1..n |-> CpuNode]

\* read_num_cpus_from: compatible_nodes("arm,arm-v8").count().  t.cpus holds the node
\* slots of the tree as far as the search for "arm,arm-v8" meets them.
read_num_cpus_from(t) == Ok(U64(NumCompatible(t.cpus)))

\* CellChunkIterator<N>::next on the cells still to read: a chunk of N cells, or
\* None (and the cells are used up) when fewer than N are left
CellChunkNext(cells, N) ==
    IF Len(cells) >= N
    THEN [item |-> Some(SubSeq(cells, 1, N)), rest |-> SubSeq(cells, N + 1, Len(cells))]
    ELSE [item |-> None, rest |-> <<>>]

\* (&mut chunks).take(k).collect(): the chunks collected and the cells left
RECURSIVE TakeChunks(_, _, _)
TakeChunks(cells, N, k) ==
    IF k = 0 THEN [items |-> <<>>, rest |-> cells]
    ELSE LET n == CellChunkNext(cells, N)
         IN  IF IsNone(n.item) THEN [items |-> <<>>, rest |-> n.rest]
             ELSE LET t == TakeChunks(n.rest, N, k - 1)
                  IN  [items |-> <<Unwrap(n.item)>> \o t.items, rest |-> t.rest]

PciInfo(ranges, irq_masks, irq_maps) ==
    [ranges |-> ranges, irq_masks |-> irq_masks, irq_maps |-> irq_maps]

\* A read_pci_info_from that fails on a third range
read_pci_info_from_exactly_two(t) ==
    IF IsNone(t.pci) \/ IsNone(Unwrap(t.pci).ranges) THEN Err("NotFound")
    ELSE IF Len(Unwrap(Unwrap(t.pci).ranges)) # 2 THEN Err("NotFound")
    ELSE IF IsNone(Unwrap(t.pci).interrupt_map_mask) \/ IsNone(Unwrap(t.pci).interrupt_map)
         THEN Err("NotFound")
    ELSE LET node == Unwrap(t.pci)
             masks == TakeChunks(Unwrap(node.interrupt_map_mask), IRQ_MASK_CELLS, MAX_IRQS)
             maps == TakeChunks(Unwrap(node.interrupt_map), IRQ_MAP_CELLS, MAX_IRQS)
         IN  IF IsSome(CellChunkNext(masks.rest, IRQ_MASK_CELLS).item) THEN Err("NoSpace")
             ELSE IF IsSome(CellChunkNext(maps.rest, IRQ_MAP_CELLS).item) THEN Err("NoSpace")
             ELSE Ok(PciInfo(Unwrap(node.ranges), masks.items, maps.items))

\* A read_pci_info_from without the tests for an eleventh chunk
read_pci_info_from_unbounded(t) ==
    IF IsNone(t.pci) \/ IsNone(Unwrap(t.pci).ranges) THEN Err("NotFound")
    ELSE IF Len(Unwrap(Unwrap(t.pci).ranges)) < 2 THEN Err("NotFound")
    ELSE IF IsNone(Unwrap(t.pci).interrupt_map_mask) \/ IsNone(Unwrap(t.pci).interrupt_map)
         THEN Err("NotFound")
    ELSE LET node == Unwrap(t.pci)
             masks == TakeChunks(Unwrap(node.interrupt_map_mask), IRQ_MASK_CELLS, MAX_IRQS)
             maps == TakeChunks(Unwrap(node.interrupt_map), IRQ_MAP_CELLS, MAX_IRQS)
         IN  Ok(PciInfo(SubSeq(Unwrap(node.ranges), 1, 2), masks.items, maps.items))

\* read_pci_info_from
read_pci_info_from(t) ==
    IF IsNone(t.pci) THEN Err("NotFound")
    ELSE LET node == Unwrap(t.pci)
         IN  IF IsNone(node.ranges) THEN Err("NotFound")
             ELSE LET ranges == Unwrap(node.ranges)
                  IN  IF Len(ranges) < 1 THEN Err("NotFound")       \* range0
                      ELSE IF Len(ranges) < 2 THEN Err("NotFound")  \* range1
                      ELSE IF IsNone(node.interrupt_map_mask) THEN Err("NotFound")
                      ELSE LET masks == TakeChunks(Unwrap(node.interrupt_map_mask),
                                                   IRQ_MASK_CELLS, MAX_IRQS)
                           IN  IF IsSome(CellChunkNext(masks.rest, IRQ_MASK_CELLS).item)
                               THEN Err("NoSpace")
                               ELSE IF IsNone(node.interrupt_map) THEN Err("NotFound")
                               ELSE LET maps == TakeChunks(Unwrap(node.interrupt_map),
                                                           IRQ_MAP_CELLS, MAX_IRQS)
                                    IN  IF IsSome(CellChunkNext(maps.rest, IRQ_MAP_CELLS).item)
                                        THEN Err("NoSpace")
                                        ELSE Ok(PciInfo(<<ranges[1], ranges[2]>>,
                                                        masks.items, maps.items))

MAX_SERIALS == 4

\* FdtNode::first_reg of each of the first MAX_SERIALS nodes, or the first error
RECURSIVE FirstRegs(_, _)
FirstRegs(nodes, k) ==
    IF k = 0 \/ Len(nodes) = 0 THEN Ok(<<>>)
    ELSE IF IsNone(nodes[1].reg) \/ Len(Unwrap(nodes[1].reg)) = 0 THEN Err("NotFound")
    ELSE LET tail == FirstRegs(Tail(nodes), k - 1)
         IN  IF IsErr(tail) THEN tail
             ELSE Ok(<<Unwrap(nodes[1].reg)[1].addr>> \o Val(tail))

\* read_serial_info_from
read_serial_info_from(t) ==
    LET addrs == FirstRegs(t.serial, MAX_SERIALS)
    IN  IF IsErr(addrs) THEN addrs ELSE Ok([addrs |-> Val(addrs)])

\* A new_from_fdt that takes an absent alignment for no alignment
new_from_fdt_alignment_optional(t) ==
    IF IsNone(t.swiotlb) THEN Err("NotFound")
    ELSE LET node == Unwrap(t.swiotlb)
         IN  IF IsSome(node.reg)
             THEN IF Len(Unwrap(node.reg)) = 0 THEN Err("NotFound")
                  ELSE Ok(SwiotlbInfo(Some(Unwrap(node.reg)[1].addr),
                                      Unwrap(node.reg)[1].size, None))
             ELSE IF IsNone(node.size) THEN Err("NotFound")
             ELSE Ok(SwiotlbInfo(None, Unwrap(node.size), node.alignment))

\* SwiotlbInfo::new_from_fdt
new_from_fdt(t) ==
    IF IsNone(t.swiotlb) THEN Err("NotFound")
    ELSE LET node == Unwrap(t.swiotlb)
         IN  IF IsSome(node.reg)
             THEN IF Len(Unwrap(node.reg)) = 0 THEN Err("NotFound")
                  ELSE Ok(SwiotlbInfo(Some(Unwrap(node.reg)[1].addr),
                                      Unwrap(node.reg)[1].size, None))
             ELSE IF IsNone(node.size) \/ IsNone(node.alignment) THEN Err("NotFound")
             ELSE Ok(SwiotlbInfo(None, Unwrap(node.size), Some(Unwrap(node.alignment))))

\* read_vendor_public_key_from
read_vendor_public_key_from(t) ==
    IF IsNone(t.avf) THEN Ok(None) ELSE Ok(Unwrap(t.avf).vendor_public_key)

(***************************************************************************)
(* The compiled-in template pvmfw_fdt_template::RAW and the patch_*        *)
(* functions that write the validated facts into it.                       *)
(***************************************************************************)
RECURSIVE Repeat(_, _)
Repeat(s, k) == IF k = 0 THEN <<>> ELSE s \o Repeat(s, k - 1)

\* The interrupt-map entry the template holds for device idx
ExpectedIrqMap(idx, phandle) ==
    <<(2 ^ PCI_DEVICE_IDX) * (idx + 1), PCI_IRQ_ADDR_ME, PCI_IRQ_ADDR_LO, PCI_IRQ_INTC,
      phandle, 0, 0, GIC_SPI, AARCH64_IRQ_BASE + idx, IRQ_TYPE_LEVEL_HIGH>>

RECURSIVE ExpectedIrqMaps(_, _)
ExpectedIrqMaps(k, phandle) ==
    IF k = 0 THEN <<>> ELSE ExpectedIrqMaps(k - 1, phandle) \o ExpectedIrqMap(k - 1, phandle)

TemplateIntcPhandle == 1
Memory64 == [range_type |-> "Memory64", prefetchable |-> FALSE]

SerialNode(addr) == [reg |-> Some(<<Reg(addr, U64(8))>>)]

\* A template with the given number of "arm,arm-v8" nodes whose first GIC reg range
\* starts at gic_base.  What sanitize_device_tree needs of it is there: /chosen,
\* /memory with a reg of 16 bytes, the PCI node with MAX_IRQS interrupts, the four
\* "ns16550a" nodes, the DMA pool with both encodings, the GIC with two reg ranges and
\* the timer with four interrupts.
TemplateOf(num_cpus, gic_base) ==
    [check_full |-> TRUE,
     config |-> None,
     chosen |-> Some([initrd_start |-> None, initrd_end |-> None, bootargs |-> None]),
     memory |-> Some([device_type |-> Some("memory"), reg |-> Some(<<Reg(U64Zero, U64Zero)>>)]),
     cpus |-> CpuNodes(num_cpus),
     pci |-> Some([ranges |-> Some(<<PciAddrRange(Memory64, U64Zero, U64Zero, U64Zero),
                                     PciAddrRange(Memory64, U64Zero, U64Zero, U64Zero)>>),
                   interrupt_map_mask |-> Some(Repeat(EXPECTED, MAX_IRQS)),
                   interrupt_map |-> Some(ExpectedIrqMaps(MAX_IRQS, TemplateIntcPhandle))]),
     serial |-> <<SerialNode(U64(1016)), SerialNode(U64(760)),
                  SerialNode(U64(1000)), SerialNode(U64(744))>>,
     swiotlb |-> Some([reg |-> Some(<<Reg(U64Zero, U64Zero)>>),
                       size |-> Some(U64Zero), alignment |-> Some(U64Zero)]),
     gic |-> Some([reg |-> Some(<<Reg(gic_base, U64(65536)),
                                  Reg(SubWithBorrow(gic_base, U64(131072)).diff,
                                      U64(131072))>>)]),
     timer |-> Some([interrupts |-> Some(<<1, 13, 8, 1, 14, 8, 1, 11, 8, 1, 10, 8>>)]),
     avf |-> None,
     slash_avf |-> None,
     overlay |-> None,
     assigned |-> "none",
     other |-> "template",
     strings |-> {},
     unpacked |-> FALSE,
     used |-> 4096,
     buffer_len |-> 4096]

\* The templates a build may compile in.  Neither the number of CPU nodes nor the place
\* of the GIC is fixed by the source: the family holds a template of few CPU nodes and
\* one whose GIC lies so low that the redistributors of its last CPUs have no room
\* below it.
\* 0x3fff_0000 and 0x8_0000
ReferenceTemplate == TemplateOf(4, U64(1073676288))
Templates == {ReferenceTemplate, TemplateOf(8, U64(524288))}

\* pvmfw_fdt_template::RAW of the build at hand, and the CPU nodes it holds
Template == template
TemplateNumCpus == NumCompatible(Template.cpus)

\* FDT_TAGALIGN: the next multiple of four
FDT_TAGALIGN(n) == ((n + 3) \div 4) * 4

\* What a function that writes the tree leaves behind: what it returns (Ok(Unit), an
\* error or a panic) and the tree as its last write left it
Left(r, t) == [result |-> r, fdt |-> t]
Wrote(t) == Left(Ok(Unit), t)

\* The tree when the function returned Ok, else what it returned
AsResult(left) == IF IsOk(left.result) THEN Ok(left.fdt) ELSE left.result

\* The bytes between the end of the blob and its totalsize, which fdt_splice_ allows a
\* write to take: fdt_open_into (unpack) sets totalsize to the length of the buffer,
\* fdt_pack to the bytes the blob takes
FreeBytes(t) == IF t.unpacked THEN t.buffer_len - t.used ELSE 0

\* fdt_find_add_string_: the bytes a property name takes in the strings block, none when
\* the block holds the name already.  t.strings is the set of the names it holds, of
\* those that the functions below may add.
NameBytes(t, name) == IF name \in t.strings THEN 0 ELSE Len(name) + 1

\* fdt_setprop: the bytes by which the blob grows.  A property that the node lacks takes
\* the tag, the length and the name offset (12 bytes), the value padded, and its name
\* unless the strings block holds it; one that the node has takes the difference of the
\* padded values.
SetpropGrowth(t, old_len, name, new_len) ==
    IF IsSome(old_len) THEN FDT_TAGALIGN(new_len) - FDT_TAGALIGN(Unwrap(old_len))
    ELSE 12 + FDT_TAGALIGN(new_len) + NameBytes(t, name)

\* fdt_add_subnode: the bytes by which the blob grows: the tag, the name and its NUL,
\* padded, and the end tag
AddSubnodeGrowth(name) == 4 + FDT_TAGALIGN(Len(name) + 1) + 4

\* The byte length of a property that holds an integer and of one that holds a string
PropLen(prop) == IF IsSome(prop) THEN Some(Unwrap(prop).len) ELSE None
StrPropLen(prop) ==
    IF IsSome(prop)
    THEN Some(Len(Unwrap(prop).text) + (IF Unwrap(prop).nul_terminated THEN 1 ELSE 0))
    ELSE None

\* patch_initrd_range: u32::try_from(..).unwrap() of both ends, which panics on an end
\* that does not fit 32 bits, then setprop of both properties in /chosen; each setprop
\* returns NoSpace when the blob cannot grow by what the property takes, the second after
\* the first has been written
patch_initrd_range(t, initrd_range) ==
    IF initrd_range.start[1] # 0 \/ initrd_range.start[2] # 0 THEN Left(Panic, t)
    ELSE IF initrd_range.end[1] # 0 \/ initrd_range.end[2] # 0 THEN Left(Panic, t)
    ELSE IF IsNone(t.chosen) THEN Left(Err("NotFound"), t)
    ELSE LET start_growth == SetpropGrowth(t, PropLen(Unwrap(t.chosen).initrd_start),
                                           "linux,initrd-start", 4)
             with_start == [t EXCEPT !.chosen = Some([Unwrap(t.chosen) EXCEPT
                                !.initrd_start = Some(PropU32(U64ToNat(initrd_range.start)))]),
                                     !.strings = @ \cup {"linux,initrd-start"},
                                     !.used = @ + start_growth]
             end_growth == SetpropGrowth(with_start, PropLen(Unwrap(t.chosen).initrd_end),
                                         "linux,initrd-end", 4)
         IN  IF start_growth > FreeBytes(t) THEN Left(Err("NoSpace"), t)
             ELSE IF end_growth > FreeBytes(with_start) THEN Left(Err("NoSpace"), with_start)
             ELSE Wrote([with_start EXCEPT !.chosen = Some([Unwrap(with_start.chosen) EXCEPT
                            !.initrd_end = Some(PropU32(U64ToNat(initrd_range.end)))]),
                                           !.strings = @ \cup {"linux,initrd-end"},
                                           !.used = @ + end_growth])

\* u64::to_be_bytes and u64::from_be_bytes: eight bytes, most significant first
to_be_bytes(a) ==
    <<a[1] \div 256, a[1] % 256, a[2] \div 256, a[2] % 256,
      a[3] \div 256, a[3] % 256, a[4] \div 256, a[4] % 256>>
from_be_bytes(b) ==
    <<b[1] * 256 + b[2], b[3] * 256 + b[4], b[5] * 256 + b[6], b[7] * 256 + b[8]>>

\* helpers::flatten: the byte arrays one after the other
RECURSIVE flatten(_)
flatten(arrays) == IF Len(arrays) = 0 THEN <<>> ELSE Head(arrays) \o flatten(Tail(arrays))

\* The bytes of a reg property (#address-cells = #size-cells = 2) and the entries that
\* RegIterator reads from such bytes
RegBytes(reg) == flatten([i \in 1..Len(reg) |-> to_be_bytes(reg[i].addr) \o to_be_bytes(reg[i].size)])
RegEntries(bytes) ==
    [i \in 1..(Len(bytes) \div 16) |->
         Reg(from_be_bytes(SubSeq(bytes, 16 * i - 15, 16 * i - 8)),
             from_be_bytes(SubSeq(bytes, 16 * i - 7, 16 * i)))]

\* FdtNodeMut::setprop_inplace on the reg property: fdt_setprop_inplace finds the
\* property and fails unless the new value is as long as the current one
setprop_inplace_reg(node, value) ==
    IF IsNone(node.reg) THEN Err("NotFound")
    ELSE IF Len(RegBytes(Unwrap(node.reg))) # Len(value) THEN Err("NoSpace")
    ELSE Ok([node EXCEPT !.reg = Some(RegEntries(value))])

\* A patch_memory_range that writes reg with setprop, whatever its current length
patch_memory_range_setprop(t, memory_range) ==
    IF IsNone(t.memory) THEN Left(Err("NotFound"), t)
    ELSE Wrote([t EXCEPT !.memory = Some([Unwrap(t.memory) EXCEPT !.reg =
                    Some(RegEntries(flatten(<<to_be_bytes(MEM_START),
                                              to_be_bytes(RangeLen(memory_range))>>)))])])

\* patch_memory_range
patch_memory_range(t, memory_range) ==
    IF IsNone(t.memory) THEN Left(Err("NotFound"), t)
    ELSE LET size == RangeLen(memory_range)
             node == setprop_inplace_reg(Unwrap(t.memory),
                                         flatten(<<to_be_bytes(MEM_START), to_be_bytes(size)>>))
         IN  IF IsErr(node) THEN Left(node, t)
             ELSE Wrote([t EXCEPT !.memory = Some(Val(node))])

\* patch_bootargs: the bootargs are copied unmodified, with their NUL; setprop returns
\* NoSpace when the blob cannot grow by what the property takes
patch_bootargs(t, bootargs) ==
    IF IsNone(t.chosen) THEN Left(Err("NotFound"), t)
    ELSE LET growth == SetpropGrowth(t, StrPropLen(Unwrap(t.chosen).bootargs), "bootargs",
                                     Len(bootargs) + 1)
         IN  IF growth > FreeBytes(t) THEN Left(Err("NoSpace"), t)
             ELSE Wrote([t EXCEPT !.chosen = Some([Unwrap(t.chosen) EXCEPT
                            !.bootargs = Some([nul_terminated |-> TRUE, text |-> bootargs])]),
                                  !.strings = @ \cup {"bootargs"},
                                  !.used = @ + growth])

\* for _ in 0..num_cpus { next = current.next_compatible(cpu)? }: `next` is the offset of
\* the node at hand, 0 when there is none; NoSpace when the nodes end before the loop does
RECURSIVE SkipCompatible(_, _, _)
SkipCompatible(nodes, next, n) ==
    IF n = 0 THEN Ok(next)
    ELSE IF next = 0 THEN Err("NoSpace")
    ELSE SkipCompatible(nodes, fdt_node_offset_by_compatible(nodes, next), n - 1)

\* The handle an Option<FdtNodeMut> holds, 0 for None
OffsetOf(node) == IF IsSome(node) THEN Unwrap(node) ELSE 0

\* while let Some(current) = next { next = current.delete_and_next_compatible(cpu)? }:
\* the first error ends the loop, and the nodes deleted before it stay deleted
RECURSIVE DeleteCompatibleFrom(_, _)
DeleteCompatibleAfter(deleted) ==
    IF IsErr(deleted.result) THEN deleted
    ELSE DeleteCompatibleFrom(deleted.nodes, OffsetOf(Val(deleted.result)))
DeleteCompatibleFrom(nodes, next) ==
    IF next = 0 THEN [result |-> Ok(Unit), nodes |-> nodes]
    ELSE DeleteCompatibleAfter(delete_and_next_compatible(nodes, next))

\* The two loops of patch_num_cpus, the while loop started where the for loop ended
PruneCpusFrom(t, skipped) ==
    IF IsErr(skipped) THEN Left(skipped, t)
    ELSE Left(DeleteCompatibleFrom(t.cpus, Val(skipped)).result,
              [t EXCEPT !.cpus = DeleteCompatibleFrom(t.cpus, Val(skipped)).nodes])

\* patch_num_cpus with a for loop of `skip` rounds.  A count above the number of slots
\* ends the for loop with NoSpace, as the slots hold no more nodes than they are.
PruneCpus(t, num_cpus, skip) ==
    IF U64Lt(U64(Len(t.cpus)), num_cpus) THEN Left(Err("NoSpace"), t)
    ELSE PruneCpusFrom(t, SkipCompatible(t.cpus, fdt_node_offset_by_compatible(t.cpus, 0), skip))

\* A patch_num_cpus that starts to delete one node too late
patch_num_cpus_keeping_one_more(t, num_cpus) == PruneCpus(t, num_cpus, U64ToNat(num_cpus) + 1)

\* patch_num_cpus: the for loop steps over num_cpus "arm,arm-v8" nodes from the first one
\* after the root (NoSpace when there are fewer), the while loop deletes every one that
\* follows
patch_num_cpus(t, num_cpus) == PruneCpus(t, num_cpus, U64ToNat(num_cpus))

\* FdtNodeMut::trimprop on a cell property, new_size in cells: fdt_setprop of the first
\* new_size cells, which gives their bytes back to the blob
trimprop(prop, new_size) ==
    IF IsNone(prop) THEN Err("NotFound")
    ELSE IF Len(Unwrap(prop)) = new_size THEN Ok(prop)
    ELSE IF new_size > Len(Unwrap(prop)) THEN Err("NoSpace")
    ELSE Ok(Some(SubSeq(Unwrap(prop), 1, new_size)))

\* The bytes of the cells that trimprop has taken from a property
TrimmedBytes(prop, trimmed) == 4 * (Len(Unwrap(prop)) - Len(Unwrap(trimmed)))

\* patch_pci_info: the two interrupt tables are trimmed, then ranges is written in place;
\* what was written before an error stays
patch_pci_info(t, pci_info) ==
    IF IsNone(t.pci) THEN Left(Err("NotFound"), t)
    ELSE LET node == Unwrap(t.pci)
             masks == trimprop(node.interrupt_map_mask, Len(pci_info.irq_masks) * IRQ_MASK_CELLS)
             maps == trimprop(node.interrupt_map, Len(pci_info.irq_maps) * IRQ_MAP_CELLS)
             with_masks == [t EXCEPT !.pci = Some([node EXCEPT !.interrupt_map_mask = Val(masks)]),
                                     !.used = @ - TrimmedBytes(node.interrupt_map_mask, Val(masks))]
             with_maps == [with_masks EXCEPT
                               !.pci = Some([Unwrap(with_masks.pci) EXCEPT
                                                 !.interrupt_map = Val(maps)]),
                               !.used = @ - TrimmedBytes(node.interrupt_map, Val(maps))]
         IN  IF IsErr(masks) THEN Left(masks, t)
             ELSE IF IsErr(maps) THEN Left(maps, with_masks)
             ELSE IF IsNone(node.ranges) THEN Left(Err("NotFound"), with_maps)
             ELSE IF Len(Unwrap(node.ranges)) # 2 THEN Left(Err("NoSpace"), with_maps)
             ELSE Wrote([with_maps EXCEPT !.pci = Some([Unwrap(with_maps.pci) EXCEPT
                                                          !.ranges = Some(pci_info.ranges)])])

\* The loop of patch_serial_info from the i-th "ns16550a" node on: a node without a first
\* reg entry ends it with NotFound, after the nodes before it have been deleted or kept
RECURSIVE KeepKnownSerials(_, _, _)
KeepKnownSerials(nodes, i, addrs) ==
    IF i > Len(nodes) THEN [result |-> Ok(Unit), nodes |-> nodes]
    ELSE IF IsNone(nodes[i].reg) \/ Len(Unwrap(nodes[i].reg)) = 0
         THEN [result |-> Err("NotFound"), nodes |-> nodes]
    ELSE IF \E k \in 1..Len(addrs) : addrs[k] = Unwrap(nodes[i].reg)[1].addr
         THEN KeepKnownSerials(nodes, i + 1, addrs)
    ELSE KeepKnownSerials(SubSeq(nodes, 1, i - 1) \o SubSeq(nodes, i + 1, Len(nodes)), i, addrs)

\* A patch_serial_info that deletes no node
patch_serial_info_keeping_all(t, serial_info) == Wrote(t)

\* patch_serial_info: deletes the "ns16550a" nodes whose address is unknown
patch_serial_info(t, serial_info) ==
    Left(KeepKnownSerials(t.serial, 1, serial_info.addrs).result,
         [t EXCEPT !.serial = KeepKnownSerials(t.serial, 1, serial_info.addrs).nodes])

\* patch_swiotlb_info: three writes in a row, each on a property the node must have;
\* what was written before an error or the panic of align.unwrap() stays
patch_swiotlb_info(t, swiotlb_info) ==
    IF IsNone(t.swiotlb) THEN Left(Err("NotFound"), t)
    ELSE LET node == Unwrap(t.swiotlb)
             range == fixed_range(swiotlb_info)
             with_reg == [t EXCEPT !.swiotlb = Some([node EXCEPT !.reg =
                              IF IsSome(range)
                              THEN Some(<<Reg(Unwrap(range).start, RangeLen(Unwrap(range)))>>)
                              ELSE None])]
             with_size == [with_reg EXCEPT !.swiotlb = Some([Unwrap(with_reg.swiotlb) EXCEPT
                               !.size = IF IsSome(range) THEN None ELSE Some(swiotlb_info.size)])]
         IN  IF IsSome(range)
             THEN IF IsNone(node.reg) THEN Left(Err("NotFound"), t)
                  ELSE IF Len(Unwrap(node.reg)) # 1 THEN Left(Err("NoSpace"), t)
                  ELSE IF IsNone(node.size) THEN Left(Err("NotFound"), with_reg)
                  ELSE IF IsNone(node.alignment) THEN Left(Err("NotFound"), with_size)
                  ELSE Wrote([with_size EXCEPT !.swiotlb =
                                  Some([Unwrap(with_size.swiotlb) EXCEPT !.alignment = None])])
             ELSE IF IsNone(node.reg) THEN Left(Err("NotFound"), t)
                  ELSE IF IsNone(node.size) THEN Left(Err("NotFound"), with_reg)
                  ELSE IF IsNone(swiotlb_info.align) THEN Left(Panic, with_size)
                  ELSE IF IsNone(node.alignment) THEN Left(Err("NotFound"), with_size)
                  ELSE Wrote([with_size EXCEPT !.swiotlb =
                                  Some([Unwrap(with_size.swiotlb) EXCEPT
                                            !.alignment = swiotlb_info.align])])

\* patch_gic: the second reg range is moved just below the first; addr - size panics
\* below zero in a build that checks overflow and wraps in one that does not
patch_gic(t, num_cpus) ==
    IF IsNone(t.gic) \/ IsNone(Unwrap(t.gic).reg) THEN Left(Err("NotFound"), t)
    ELSE LET ranges == Unwrap(Unwrap(t.gic).reg)
         IN  IF Len(ranges) < 2 THEN Left(Err("NotFound"), t)
             ELSE LET range0 == ranges[1]
                      size == gic_patched_size(num_cpus)
                  IN  IF IsNone(size) THEN Left(Panic, t)
                      ELSE IF overflow_checks
                              /\ SubWithBorrow(range0.addr, Unwrap(size)).borrow = 1
                           THEN Left(Panic, t)
                      ELSE IF Len(ranges) # 2 THEN Left(Err("NoSpace"), t)
                      ELSE Wrote([t EXCEPT !.gic = Some([reg |-> Some(
                                     <<range0,
                                       Reg(SubWithBorrow(range0.addr, Unwrap(size)).diff,
                                           Unwrap(size))>>)])])

\* a | b on 16-bit values
RECURSIVE BitOr(_, _)
BitOr(a, b) ==
    IF a = 0 THEN b
    ELSE IF b = 0 THEN a
    ELSE (IF a % 2 = 1 \/ b % 2 = 1 THEN 1 ELSE 0) + 2 * BitOr(a \div 2, b \div 2)

\* a & 0xff
Low8(a) == a % 256

NUM_INTERRUPTS == 4
CELLS_PER_INTERRUPT == 3

\* patch_timer: ORs the CPU mask into the third cell of each interrupt.  The first 12
\* cells are taken, padded with zeros, and written in place: a property of another length
\* refuses them.  1 << num_cpus panics from 32 on in a build that checks overflow, and
\* shifts by num_cpus % 32 in one that does not.
patch_timer(t, num_cpus) ==
    IF IsNone(t.timer) \/ IsNone(Unwrap(t.timer).interrupts) THEN Left(Err("NotFound"), t)
    ELSE LET interrupts == Unwrap(Unwrap(t.timer).interrupts)
         IN  IF num_cpus[1] # 0 \/ num_cpus[2] # 0 THEN Left(Panic, t)
             ELSE IF overflow_checks /\ (num_cpus[3] # 0 \/ num_cpus[4] >= 32)
                  THEN Left(Panic, t)
             ELSE IF Len(interrupts) # NUM_INTERRUPTS * CELLS_PER_INTERRUPT
                  THEN Left(Err("NoSpace"), t)
             ELSE LET shift == num_cpus[4] % 32
                      \* the low 16 bits of 0x1 << shift; & 0xff keeps none above them
                      shifted == IF shift >= 16 THEN 0 ELSE 2 ^ shift
                      cpu_mask == Low8(shifted - 1) * (2 ^ 8)
                      value == [i \in 1..(NUM_INTERRUPTS * CELLS_PER_INTERRUPT) |->
                                   IF i % CELLS_PER_INTERRUPT = 0
                                   THEN BitOr(interrupts[i], cpu_mask)
                                   ELSE interrupts[i]]
                  IN  Wrote([t EXCEPT !.timer = Some([interrupts |-> Some(value)])])

\* patch_vendor_public_key: add_subnode of the root, then setprop.  The name given to
\* fdt_add_subnode_namelen is the four bytes "/avf": Exists when the root has a child of
\* that very name, else the child is added (the tag, the name and its NUL padded, and the
\* end tag: 16 bytes) and the key is set in it; both return NoSpace when the blob cannot
\* grow, the second after the node has been added.
patch_vendor_public_key(t, vendor_public_key) ==
    IF IsSome(t.slash_avf) THEN Left(Err("Exists"), t)
    ELSE LET node_growth == AddSubnodeGrowth("/avf")
             with_node == [t EXCEPT !.slash_avf = Some([vendor_public_key |-> None]),
                                    !.used = @ + node_growth]
             growth == SetpropGrowth(t, None, "vendor_public_key", Len(vendor_public_key))
         IN  IF node_growth > FreeBytes(t) THEN Left(Err("NoSpace"), t)
             ELSE IF growth > FreeBytes(with_node) THEN Left(Err("NoSpace"), with_node)
             ELSE Wrote([with_node EXCEPT
                             !.slash_avf = Some([vendor_public_key |-> Some(vendor_public_key)]),
                             !.strings = @ \cup {"vendor_public_key"},
                             !.used = @ + growth])

\* DeviceAssignmentInfo::patch, whose writes are those of the assignment collaborator:
\* it writes what parse has read of the assigned devices into the nodes that the VM DTBO
\* has brought
device_assignment_patch(t, device_assignment) ==
    IF device_assignment.patch_ok
    THEN Wrote([t EXCEPT !.overlay = Some(device_assignment.devices)])
    ELSE Left(Err("DeviceAssignmentError"), t)

\* The statements of patch_device_tree, in order
patch_device_tree_steps ==
    <<"patch_initrd_range", "patch_memory_range", "patch_bootargs", "patch_num_cpus",
      "patch_pci_info", "patch_serial_info", "patch_swiotlb_info", "patch_gic",
      "patch_timer", "device_assignment_patch", "patch_vendor_public_key">>

\* One statement of patch_device_tree
PatchStep(t, step, di) ==
    CASE step = "patch_initrd_range" ->
             IF IsSome(di.initrd_range)
             THEN patch_initrd_range(t, Unwrap(di.initrd_range)) ELSE Wrote(t)
      [] step = "patch_memory_range" -> patch_memory_range(t, di.memory_range)
      [] step = "patch_bootargs" ->
             IF IsSome(di.bootargs) THEN patch_bootargs(t, Unwrap(di.bootargs)) ELSE Wrote(t)
      [] step = "patch_num_cpus" -> patch_num_cpus(t, di.num_cpus)
      [] step = "patch_pci_info" -> patch_pci_info(t, di.pci_info)
      [] step = "patch_serial_info" -> patch_serial_info(t, di.serial_info)
      [] step = "patch_swiotlb_info" -> patch_swiotlb_info(t, di.swiotlb_info)
      [] step = "patch_gic" -> patch_gic(t, di.num_cpus)
      [] step = "patch_timer" -> patch_timer(t, di.num_cpus)
      [] step = "device_assignment_patch" ->
             IF IsSome(di.device_assignment)
             THEN device_assignment_patch(t, Unwrap(di.device_assignment)) ELSE Wrote(t)
      [] step = "patch_vendor_public_key" ->
             IF IsSome(di.vendor_public_key)
             THEN patch_vendor_public_key(t, Unwrap(di.vendor_public_key)) ELSE Wrote(t)

\* The statements from the i-th on; the first error or panic ends them, and the tree
\* stays as the statements before it and the failing one have left it
RECURSIVE PatchFrom(_, _, _)
PatchAfter(written, i, di) ==
    IF ~IsOk(written.result) THEN written ELSE PatchFrom(written.fdt, i + 1, di)
PatchFrom(t, i, di) ==
    IF i > Len(patch_device_tree_steps) THEN Wrote(t)
    ELSE PatchAfter(PatchStep(t, patch_device_tree_steps[i], di), i, di)

\* The `?` of patch_device_tree's map_err on what its statements have returned
PatchOutcome(written) ==
    Left(IF IsErr(written.result) THEN InvalidFdt ELSE written.result, written.fdt)

\* patch_device_tree: every libfdt error becomes RebootReason::InvalidFdt; a panic of a
\* statement is no error value and unwinds through it
patch_device_tree(t, di) == PatchOutcome(PatchFrom(t, 1, di))

\* The place of a statement in patch_device_tree
PatchIndex(step) ==
    CHOOSE k \in 1..Len(patch_device_tree_steps) : patch_device_tree_steps[k] = step

\* The tree after the statements i..(k - 1) of patch_device_tree, or their first error
\* or panic
RECURSIVE PatchedBefore(_, _, _, _)
PatchedAfter(written, i, k, di) ==
    IF ~IsOk(written.result) THEN written.result
    ELSE PatchedBefore(written.fdt, i + 1, k, di)
PatchedBefore(t, i, k, di) ==
    IF i >= k THEN Ok(t)
    ELSE PatchedAfter(PatchStep(t, patch_device_tree_steps[i], di), i, k, di)

(***************************************************************************)
(* sanitize_device_tree, one action per step.  The steps run in the order  *)
(* of the source; the first error ends the call with InvalidFdt.           *)
(***************************************************************************)
\* A sanitize_device_tree that copies the template before it parses the input
sanitize_device_tree_template_first ==
    <<"from_mut_slice", "vm_dtbo_from_mut_slice", "copy_from_slice",
      "read_kernel_range_from", "read_initrd_range_from",
      "read_and_validate_memory_range", "read_bootargs_from", "read_num_cpus_from",
      "validate_num_cpus", "read_pci_info_from", "validate_pci_info",
      "read_serial_info_from", "new_from_fdt", "validate_swiotlb_info",
      "device_assignment_parse", "read_vendor_public_key_from",
      "unpack", "apply_overlay", "patch_device_tree", "pack", "done">>

\* The steps of sanitize_device_tree (with parse_device_tree inlined), in order
sanitize_device_tree_steps ==
    <<"from_mut_slice", "vm_dtbo_from_mut_slice",
      "read_kernel_range_from", "read_initrd_range_from",
      "read_and_validate_memory_range", "read_bootargs_from", "read_num_cpus_from",
      "validate_num_cpus", "read_pci_info_from", "validate_pci_info",
      "read_serial_info_from", "new_from_fdt", "validate_swiotlb_info",
      "device_assignment_parse", "read_vendor_public_key_from",
      "copy_from_slice", "unpack", "apply_overlay", "patch_device_tree", "pack", "done">>

StepAfter(step) ==
    LET i == CHOOSE k \in 1..Len(sanitize_device_tree_steps) :
                 sanitize_device_tree_steps[k] = step
    IN  sanitize_device_tree_steps[i + 1]

\* The steps of parse_device_tree
ParseSteps ==
    {"read_kernel_range_from", "read_initrd_range_from", "read_and_validate_memory_range",
     "read_bootargs_from", "read_num_cpus_from", "validate_num_cpus", "read_pci_info_from",
     "validate_pci_info", "read_serial_info_from", "new_from_fdt", "validate_swiotlb_info",
     "device_assignment_parse", "read_vendor_public_key_from"}

EmptyInfo ==
    [kernel_range |-> None, initrd_range |-> None, memory_range |-> Range(U64Zero, U64Zero),
     bootargs |-> None, num_cpus |-> U64Zero, pci_info |-> PciInfo(<<>>, <<>>, <<>>),
     serial_info |-> [addrs |-> <<>>], swiotlb_info |-> SwiotlbInfo(None, U64Zero, None),
     device_assignment |-> None, vendor_public_key |-> None]

NoCall == [fn |-> "none", args |-> <<>>]

\* zipfuse: no call of any handler has returned Ok yet
NoHistory == [fn \in {"open", "release", "opendir", "releasedir"} |-> [inode \in 1..3 |-> 0]]

\* The step returns Ok: go on with the next one
Continue == /\ pc' = StepAfter(pc)
            /\ UNCHANGED <<result, failed_at>>

\* The step returns the error e, which is logged: sanitize_device_tree returns InvalidFdt
Abort(e) == /\ pc' = "failed"
            /\ result' = Some(InvalidFdt)
            /\ failed_at' = Some([step |-> pc, error |-> e])

\* The step panics: sanitize_device_tree does not return
Unwind == /\ pc' = "panicked"
          /\ failed_at' = Some([step |-> pc, error |-> "Panic"])
          /\ UNCHANGED result

\* A read step of parse_device_tree storing into one field of the info
ReadStep(step, r, field) ==
    /\ pc = step
    /\ IF IsErr(r)
       THEN Abort(Val(r)) /\ UNCHANGED info
       ELSE Continue /\ info' = [info EXCEPT ![field] = Val(r)]
    /\ UNCHANGED <<input, fdt, vm_dtbo, call, ret, open_files, open_dirs, history, overflow_checks, template>>

\* A validate step of parse_device_tree
ValidateStep(step, r, e) ==
    /\ pc = step
    /\ IF IsErr(r) THEN Abort(e) ELSE Continue
    /\ UNCHANGED <<input, fdt, vm_dtbo, info, call, ret, open_files, open_dirs, history, overflow_checks, template>>

FromMutSlice ==
    /\ pc = "from_mut_slice"
    /\ IF fdt.check_full THEN Continue ELSE Abort("BadStructure")
    /\ UNCHANGED <<input, fdt, vm_dtbo, info, call, ret, open_files, open_dirs, history, overflow_checks, template>>

VmDtboFromMutSlice ==
    /\ pc = "vm_dtbo_from_mut_slice"
    /\ IF IsSome(vm_dtbo) /\ ~Unwrap(vm_dtbo).check_full
       THEN Abort("BadStructure") ELSE Continue
    /\ UNCHANGED <<input, fdt, vm_dtbo, info, call, ret, open_files, open_dirs, history, overflow_checks, template>>

ReadKernelRange == ReadStep("read_kernel_range_from", read_kernel_range_from(fdt), "kernel_range")
ReadInitrdRange == ReadStep("read_initrd_range_from", read_initrd_range_from(fdt), "initrd_range")
ReadAndValidateMemoryRange ==
    ReadStep("read_and_validate_memory_range", read_and_validate_memory_range(fdt), "memory_range")
ReadBootargs == ReadStep("read_bootargs_from", read_bootargs_from(fdt), "bootargs")
ReadNumCpus == ReadStep("read_num_cpus_from", read_num_cpus_from(fdt), "num_cpus")
ValidateNumCpus ==
    ValidateStep("validate_num_cpus", validate_num_cpus(info.num_cpus), "InvalidCpuCount")
ReadPciInfo == ReadStep("read_pci_info_from", read_pci_info_from(fdt), "pci_info")
ValidatePciInfo ==
    ValidateStep("validate_pci_info", validate_pci_info(info.pci_info, info.memory_range),
                 "InvalidFdt")
ReadSerialInfo == ReadStep("read_serial_info_from", read_serial_info_from(fdt), "serial_info")
ReadSwiotlbInfo == ReadStep("new_from_fdt", new_from_fdt(fdt), "swiotlb_info")
ValidateSwiotlbInfo ==
    ValidateStep("validate_swiotlb_info",
                 validate_swiotlb_info(info.swiotlb_info, info.memory_range), "InvalidFdt")

\* The device_assignment of parse_device_tree: None without a VM DTBO, else
\* DeviceAssignmentInfo::parse(fdt, vm_dtbo), which is of the assignment collaborator.
\* It reads the assigned devices from the tree it is given (t.assigned: "none" when the
\* tree names no device, "invalid" when it names devices that the collaborator refuses,
\* else what it says of them) and matches them with the VM DTBO; the info it returns
\* holds what the tree says of the devices.
device_assignment_parse(t, dtbo) ==
    IF IsNone(dtbo) THEN Ok(None)
    ELSE IF Unwrap(dtbo).assignment = "error" \/ t.assigned = "invalid"
         THEN Err("DeviceAssignmentError")
    ELSE IF Unwrap(dtbo).assignment = "none" \/ t.assigned = "none" THEN Ok(None)
    ELSE Ok(Some([devices |-> t.assigned, patch_ok |-> Unwrap(dtbo).patch_ok]))

ParseDeviceAssignment ==
    ReadStep("device_assignment_parse", device_assignment_parse(fdt, vm_dtbo), "device_assignment")
ReadVendorPublicKey ==
    ReadStep("read_vendor_public_key_from", read_vendor_public_key_from(fdt), "vendor_public_key")

\* A copy_from_slice that leaves what the buffer held beside the new tree
copy_from_slice_leaving_old_bytes(buffer, new_fdt) ==
    IF buffer.buffer_len < new_fdt.buffer_len THEN Err("NoSpace")
    ELSE Ok([new_fdt EXCEPT !.other = buffer.other, !.buffer_len = buffer.buffer_len])

\* Fdt::copy_from_slice: NoSpace, and the buffer as it was, when the buffer is shorter
\* than the new tree; else the buffer holds the new tree, and zeroes up to the old
\* totalsize, so that nothing of the old tree is left
copy_from_slice(buffer, new_fdt) ==
    IF buffer.buffer_len < new_fdt.buffer_len THEN Err("NoSpace")
    ELSE Ok([new_fdt EXCEPT !.buffer_len = buffer.buffer_len])

\* fdt.copy_from_slice(pvmfw_fdt_template::RAW), whose error becomes InvalidFdt
CopyFromSlice ==
    /\ pc = "copy_from_slice"
    /\ LET r == copy_from_slice(fdt, Template)
       IN IF IsErr(r)
          THEN Abort(Val(r)) /\ UNCHANGED fdt
          ELSE Continue /\ fdt' = Val(r)
    /\ UNCHANGED <<input, vm_dtbo, info, call, ret, open_files, open_dirs, history, overflow_checks, template>>

\* Fdt::unpack
Unpack ==
    /\ pc = "unpack"
    /\ fdt' = [fdt EXCEPT !.unpacked = TRUE]
    /\ Continue
    /\ UNCHANGED <<input, vm_dtbo, info, call, ret, open_files, open_dirs, history, overflow_checks, template>>

\* Fdt::apply_overlay with the filtered VM DTBO: fdt_overlay_apply fails when the overlay
\* does not fit the tree (dtbo.applies is FALSE) or when the blob has no room for the
\* bytes its nodes and properties take (dtbo.growth), and then the tree is damaged; else
\* the tree has grown by these bytes
apply_vm_dtbo(t, dtbo) ==
    IF ~dtbo.applies THEN Left(Err("BadOverlay"), [t EXCEPT !.other = "corrupted"])
    ELSE IF dtbo.growth > FreeBytes(t)
         THEN Left(Err("NoSpace"), [t EXCEPT !.other = "corrupted"])
    ELSE Wrote([t EXCEPT !.overlay = Some("applied"), !.used = @ + dtbo.growth])

\* device_assignment_info.filter(vm_dtbo), then fdt.apply_overlay(vm_dtbo)
ApplyOverlay ==
    /\ pc = "apply_overlay"
    /\ IF IsNone(info.device_assignment)
       THEN Continue /\ UNCHANGED fdt
       ELSE IF ~Unwrap(vm_dtbo).filter_ok
            THEN Abort("DeviceAssignmentError") /\ UNCHANGED fdt
            ELSE /\ fdt' = apply_vm_dtbo(fdt, Unwrap(vm_dtbo)).fdt
                 /\ IF IsErr(apply_vm_dtbo(fdt, Unwrap(vm_dtbo)).result)
                    THEN Abort(Val(apply_vm_dtbo(fdt, Unwrap(vm_dtbo)).result))
                    ELSE Continue
    /\ UNCHANGED <<input, vm_dtbo, info, call, ret, open_files, open_dirs, history, overflow_checks, template>>

\* patch_device_tree(fdt, &info): the buffer keeps what the statements have written,
\* those before a failing one included
PatchDeviceTree ==
    /\ pc = "patch_device_tree"
    /\ LET r == patch_device_tree(fdt, info)
       IN /\ fdt' = r.fdt
          /\ IF IsPanic(r.result) THEN Unwind
             ELSE IF IsErr(r.result) THEN Abort("InvalidFdt")
             ELSE Continue
    /\ UNCHANGED <<input, vm_dtbo, info, call, ret, open_files, open_dirs, history, overflow_checks, template>>

\* Fdt::pack, then Ok(info)
Pack ==
    /\ pc = "pack"
    /\ fdt' = [fdt EXCEPT !.unpacked = FALSE]
    /\ pc' = StepAfter(pc)
    /\ result' = Some(Ok(info))
    /\ UNCHANGED <<input, vm_dtbo, info, failed_at, call, ret, open_files, open_dirs, history, overflow_checks, template>>

(***************************************************************************)
(* sanitize_device_tree as a function of its two arguments, for comparing  *)
(* the run in progress with the run on another input.                      *)
(***************************************************************************)
\* parse_device_tree: the DeviceTreeInfo, or InvalidFdt at the first error
parse_device_tree(t, dtbo) ==
    LET kernel_range == read_kernel_range_from(t)
        initrd_range == read_initrd_range_from(t)
        memory_range == read_and_validate_memory_range(t)
        bootargs == read_bootargs_from(t)
        num_cpus == read_num_cpus_from(t)
        pci_info == read_pci_info_from(t)
        serial_info == read_serial_info_from(t)
        swiotlb_info == new_from_fdt(t)
        device_assignment == device_assignment_parse(t, dtbo)
        vendor_public_key == read_vendor_public_key_from(t)
    IN  IF IsErr(kernel_range) \/ IsErr(initrd_range) \/ IsErr(memory_range) THEN InvalidFdt
        ELSE IF IsErr(bootargs) \/ IsErr(num_cpus) THEN InvalidFdt
        ELSE IF IsErr(validate_num_cpus(Val(num_cpus))) THEN InvalidFdt
        ELSE IF IsErr(pci_info) THEN InvalidFdt
        ELSE IF IsErr(validate_pci_info(Val(pci_info), Val(memory_range))) THEN InvalidFdt
        ELSE IF IsErr(serial_info) \/ IsErr(swiotlb_info) THEN InvalidFdt
        ELSE IF IsErr(validate_swiotlb_info(Val(swiotlb_info), Val(memory_range)))
             THEN InvalidFdt
        ELSE IF IsErr(device_assignment) \/ IsErr(vendor_public_key) THEN InvalidFdt
        ELSE Ok([kernel_range |-> Val(kernel_range), initrd_range |-> Val(initrd_range),
                 memory_range |-> Val(memory_range), bootargs |-> Val(bootargs),
                 num_cpus |-> Val(num_cpus), pci_info |-> Val(pci_info),
                 serial_info |-> Val(serial_info), swiotlb_info |-> Val(swiotlb_info),
                 device_assignment |-> Val(device_assignment),
                 vendor_public_key |-> Val(vendor_public_key)])

\* sanitize_device_tree: what it returns and what it leaves in the buffer
sanitize_device_tree(t, dtbo) ==
    LET parsed == parse_device_tree(t, dtbo)
        copied == copy_from_slice(t, Template)
        unpacked == [Val(copied) EXCEPT !.unpacked = TRUE]
        di == Val(parsed)
        overlaid == IF IsNone(di.device_assignment) THEN Wrote(unpacked)
                    ELSE IF ~Unwrap(dtbo).filter_ok THEN Left(InvalidFdt, unpacked)
                    ELSE IF IsErr(apply_vm_dtbo(unpacked, Unwrap(dtbo)).result)
                         THEN Left(InvalidFdt, apply_vm_dtbo(unpacked, Unwrap(dtbo)).fdt)
                    ELSE apply_vm_dtbo(unpacked, Unwrap(dtbo))
        patched == patch_device_tree(overlaid.fdt, di)
    IN  IF ~t.check_full \/ (IsSome(dtbo) /\ ~Unwrap(dtbo).check_full)
        THEN Left(InvalidFdt, t)
        ELSE IF IsErr(parsed) THEN Left(InvalidFdt, t)
        ELSE IF IsErr(copied) THEN Left(InvalidFdt, t)
        ELSE IF IsErr(overlaid.result) THEN overlaid
        ELSE IF ~IsOk(patched.result) THEN patched
        ELSE Left(parsed, [patched.fdt EXCEPT !.unpacked = FALSE])

(***************************************************************************)
(* modify_for_next_stage.  The tree it is given, as far as it reads and    *)
(* writes it:                                                              *)
(*   valid            whether the header still carries the FDT magic       *)
(*   reserved_memory  /reserved-memory: the first "google,open-dice" node  *)
(*                    inside it (dice) and the bytes of its reg            *)
(*   later_dice       the first "google,open-dice" node that follows       *)
(*                    /reserved-memory in document order, outside it       *)
(*   chosen           /chosen: avf,strict-boot and avf,new-instance        *)
(*                    (bytes), kaslr-seed (bytes), bootargs                *)
(*   common           /avf/guest/common: ramdump, log                      *)
(*   strings          the names the strings block holds, of those of the   *)
(*                    properties that the call may add                     *)
(*   unpacked         whether totalsize covers the whole buffer            *)
(*   used             the bytes the blob takes                             *)
(*   buffer_len       the length in bytes of the slice that holds the tree *)
(* A string is the sequence of its pieces: names and values that hold no   *)
(* separator stand as one piece each, "=" and " " as themselves, and       *)
(* "<ff>" is a byte that is not UTF-8.                                     *)
(***************************************************************************)

\* Fdt::as_slice: the first totalsize bytes of the buffer
as_slice(t) == [t EXCEPT !.buffer_len = IF t.unpacked THEN t.buffer_len ELSE t.used]

\* Fdt::unpack and Fdt::pack: fdt_open_into and fdt_pack refuse a blob without the magic
unpack(t) == IF ~t.valid THEN Err("BadMagic") ELSE Ok([t EXCEPT !.unpacked = TRUE])
pack(t) == IF ~t.valid THEN Err("BadMagic") ELSE Ok([t EXCEPT !.unpacked = FALSE])

\* FdtNodeMut::setprop_inplace on an Option<property bytes>
setprop_inplace(prop, value) ==
    IF IsNone(prop) THEN Err("NotFound")
    ELSE IF Len(Unwrap(prop)) # Len(value) THEN Err("NoSpace")
    ELSE Ok(Some(value))

\* A patch_dice_node that leaves a tree without the open-dice node as it is
patch_dice_node_if_present(t, addr, size) ==
    IF ~t.valid THEN Err("BadMagic")
    ELSE IF IsNone(t.reserved_memory) \/ IsNone(Unwrap(t.reserved_memory).dice) THEN Ok(t)
    ELSE LET reg == setprop_inplace(Unwrap(Unwrap(t.reserved_memory).dice).reg,
                                    flatten(<<to_be_bytes(addr), to_be_bytes(size)>>))
         IN  IF IsErr(reg) THEN reg
             ELSE Ok([t EXCEPT !.reserved_memory = Some([dice |-> Some([reg |-> Val(reg)])])])

\* FdtNodeMut::next_compatible from /reserved-memory: fdt_node_offset_by_compatible
\* returns the first "google,open-dice" node after the offset of /reserved-memory in
\* document order, be it inside that node or after it
next_compatible_open_dice(t) ==
    IF IsSome(Unwrap(t.reserved_memory).dice) THEN Unwrap(t.reserved_memory).dice
    ELSE t.later_dice

\* A patch_dice_node that writes the size before the address
patch_dice_node_size_first(t, addr, size) ==
    IF ~t.valid THEN Err("BadMagic")
    ELSE IF IsNone(t.reserved_memory) THEN Err("NotFound")
    ELSE IF IsNone(next_compatible_open_dice(t)) THEN Err("NotFound")
    ELSE LET reg == setprop_inplace(Unwrap(next_compatible_open_dice(t)).reg,
                                    flatten(<<to_be_bytes(size), to_be_bytes(addr)>>))
         IN  IF IsErr(reg) THEN reg
             ELSE IF IsSome(Unwrap(t.reserved_memory).dice)
             THEN Ok([t EXCEPT !.reserved_memory = Some([dice |-> Some([reg |-> Val(reg)])])])
             ELSE Ok([t EXCEPT !.later_dice = Some([reg |-> Val(reg)])])

\* patch_dice_node: node_mut("/reserved-memory")? returns the error of libfdt, which
\* refuses a blob without the magic, before anything is looked up or written
patch_dice_node(t, addr, size) ==
    IF ~t.valid THEN Err("BadMagic")
    ELSE IF IsNone(t.reserved_memory) THEN Err("NotFound")
    ELSE IF IsNone(next_compatible_open_dice(t)) THEN Err("NotFound")
    ELSE LET reg == setprop_inplace(Unwrap(next_compatible_open_dice(t)).reg,
                                    flatten(<<to_be_bytes(addr), to_be_bytes(size)>>))
         IN  IF IsErr(reg) THEN reg
             ELSE IF IsSome(Unwrap(t.reserved_memory).dice)
             THEN Ok([t EXCEPT !.reserved_memory = Some([dice |-> Some([reg |-> Val(reg)])])])
             ELSE Ok([t EXCEPT !.later_dice = Some([reg |-> Val(reg)])])

\* The field of /chosen that holds a flag property
FlagField(prop_name) == IF prop_name = "avf,strict-boot" THEN "strict_boot" ELSE "new_instance"

\* The byte length of a property held as the sequence of its bytes
BytesLen(prop) == IF IsSome(prop) THEN Some(Len(Unwrap(prop))) ELSE None

\* FdtNodeMut::setprop_empty on /chosen: fdt_setprop of no bytes, which returns NoSpace
\* when the property is new and the blob cannot grow by what it takes
setprop_empty(t, prop_name) ==
    LET growth == SetpropGrowth(t, BytesLen(Unwrap(t.chosen)[FlagField(prop_name)]),
                                prop_name, 0)
    IN  IF ~t.valid THEN Err("BadMagic")
        ELSE IF growth > FreeBytes(t) THEN Err("NoSpace")
        ELSE Ok([t EXCEPT !.chosen = Some([Unwrap(t.chosen) EXCEPT
                                               ![FlagField(prop_name)] = Some(<<>>)]),
                          !.strings = @ \cup {prop_name},
                          !.used = @ + growth])

\* FdtNodeMut::delprop on /chosen: fdt_delprop gives the bytes of the property back
delprop(t, prop_name) ==
    IF ~t.valid THEN Err("BadMagic")
    ELSE IF IsNone(Unwrap(t.chosen)[FlagField(prop_name)]) THEN Err("NotFound")
    ELSE Ok([t EXCEPT !.chosen = Some([Unwrap(t.chosen) EXCEPT ![FlagField(prop_name)] = None]),
                      !.used = @ - (12 + FDT_TAGALIGN(
                                             Len(Unwrap(Unwrap(t.chosen)[FlagField(prop_name)]))))])

\* An empty_or_delete_prop that sets the property whatever keep_prop says
empty_or_delete_prop_always_keeping(t, prop_name, keep_prop) == setprop_empty(t, prop_name)

\* empty_or_delete_prop, fdt_node being /chosen of t
empty_or_delete_prop(t, prop_name, keep_prop) ==
    IF keep_prop THEN setprop_empty(t, prop_name)
    ELSE IF IsErr(delprop(t, prop_name)) /\ Val(delprop(t, prop_name)) = "NotFound" THEN Ok(t)
    ELSE delprop(t, prop_name)

\* The writes of overlay_merge for a debug policy, in the order of fdt_overlay_apply:
\* the nodes of the path /avf/guest/common that the tree lacks are added, then the
\* properties of the policy are set in /avf/guest/common.  A tree of the model has the
\* whole path or none of it.
OverlayWrites(t, overlay) ==
    (IF IsSome(t.common) THEN <<>>
     ELSE <<[node |-> TRUE, name |-> "avf", value |-> None],
            [node |-> TRUE, name |-> "guest", value |-> None],
            [node |-> TRUE, name |-> "common", value |-> None]>>)
    \o (IF IsSome(overlay.common.ramdump)
        THEN <<[node |-> FALSE, name |-> "ramdump", value |-> overlay.common.ramdump]>>
        ELSE <<>>)
    \o (IF IsSome(overlay.common.log)
        THEN <<[node |-> FALSE, name |-> "log", value |-> overlay.common.log]>>
        ELSE <<>>)

\* /avf/guest/common of the tree, without properties when the node is not there
CommonOf(t) == IF IsSome(t.common) THEN Unwrap(t.common) ELSE [ramdump |-> None, log |-> None]

\* One write of the overlay: the bytes fdt_add_subnode or fdt_setprop asks of the blob,
\* and the tree once they were given
OverlayWriteGrowth(t, write) ==
    IF write.node THEN AddSubnodeGrowth(write.name)
    ELSE SetpropGrowth(t, PropLen(CommonOf(t)[write.name]), write.name, Unwrap(write.value).len)
OverlayWrite(t, write) ==
    IF write.node
    THEN [t EXCEPT !.used = @ + OverlayWriteGrowth(t, write),
                   !.common = IF write.name = "common"
                              THEN Some([ramdump |-> None, log |-> None]) ELSE @]
    ELSE [t EXCEPT !.used = @ + OverlayWriteGrowth(t, write),
                   !.strings = @ \cup {write.name},
                   !.common = Some([CommonOf(t) EXCEPT ![write.name] = write.value])]

\* overlay_merge from the i-th write on: the first write for which the blob has no room
\* ends it with NoSpace
RECURSIVE OverlayFrom(_, _, _)
OverlayFrom(t, writes, i) ==
    IF i > Len(writes) THEN Ok(t)
    ELSE IF OverlayWriteGrowth(t, writes[i]) > FreeBytes(t) THEN Err("NoSpace")
    ELSE OverlayFrom(OverlayWrite(t, writes[i]), writes, i + 1)

\* Fdt::apply_overlay with a debug policy.  fdt_overlay_apply returns BadMagic, and
\* writes nothing, on a tree without the magic; it fails when the policy does not fit the
\* tree (overlay.applies is FALSE: a fragment without target, a phandle out of range) or
\* when the blob has no room for a write, and then it has overwritten the magic of the
\* tree.  apply_debug_policy does not look at the kind of the error.
apply_overlay(t, overlay) ==
    IF ~t.valid THEN Left(Err("BadMagic"), t)
    ELSE IF ~overlay.applies THEN Left(Err("BadOverlay"), [t EXCEPT !.valid = FALSE])
    ELSE IF IsErr(OverlayFrom(t, OverlayWrites(t, overlay), 1))
         THEN Left(OverlayFrom(t, OverlayWrites(t, overlay), 1), [t EXCEPT !.valid = FALSE])
    ELSE Left(Ok(Unit), Val(OverlayFrom(t, OverlayWrites(t, overlay), 1)))

\* An apply_debug_policy that does not restore the backup
apply_debug_policy_without_restore(t, backup_fdt, debug_policy) ==
    IF ~debug_policy.check_full THEN [result |-> Ok(FALSE), fdt |-> t]
    ELSE IF IsErr(apply_overlay(t, debug_policy).result)
         THEN [result |-> Ok(FALSE), fdt |-> apply_overlay(t, debug_policy).fdt]
         ELSE [result |-> Ok(TRUE), fdt |-> apply_overlay(t, debug_policy).fdt]

\* apply_debug_policy: Ok(true) when applied, Ok(false) when the policy was dropped
apply_debug_policy(t, backup_fdt, debug_policy) ==
    IF ~debug_policy.check_full THEN [result |-> Ok(FALSE), fdt |-> t]
    ELSE IF IsErr(apply_overlay(t, debug_policy).result)
         THEN IF IsErr(copy_from_slice(apply_overlay(t, debug_policy).fdt, backup_fdt))
              THEN [result |-> copy_from_slice(apply_overlay(t, debug_policy).fdt, backup_fdt),
                    fdt |-> apply_overlay(t, debug_policy).fdt]
              ELSE [result |-> Ok(FALSE),
                    fdt |-> Val(copy_from_slice(apply_overlay(t, debug_policy).fdt,
                                                backup_fdt))]
         ELSE [result |-> Ok(TRUE), fdt |-> apply_overlay(t, debug_policy).fdt]

\* has_common_debug_policy
has_common_debug_policy(t, debug_feature_name) ==
    IF ~t.valid THEN Err("BadMagic")
    ELSE IF IsNone(t.common) THEN Ok(FALSE)
    ELSE LET value == getprop_u32(Unwrap(t.common)[debug_feature_name])
         IN  IF IsErr(value) THEN value
             ELSE IF IsSome(Val(value)) THEN Ok(Unwrap(Val(value)) = 1)
             ELSE Ok(FALSE)

\* BootArgsIterator and BootArg are bootargs.rs, which the source at hand lacks.  Of its
\* grammar the model has what filter_out_dangerous_bootargs shows: arguments `name` or
\* `name=value` without quotes, separated by spaces; BootArg::name is what stands before
\* the equal sign, BootArg::value the rest with the equal sign ("=-1"), and as_ref the
\* whole argument.
is_separator(c) == c = " "

\* The index of the first piece of s from i on that is a separator, Len(s) + 1 if there
\* is none
RECURSIVE FindEnd(_, _)
FindEnd(s, i) ==
    IF i > Len(s) THEN i
    ELSE IF is_separator(s[i]) THEN i
    ELSE FindEnd(s, i + 1)

\* BootArg: the argument and the place of its equal sign; BootArg::name and BootArg::value
BootArg(arg, equal_sign) == [arg |-> arg, equal_sign |-> equal_sign]
BootArgName(boot_arg) ==
    IF IsSome(boot_arg.equal_sign) THEN SubSeq(boot_arg.arg, 1, Unwrap(boot_arg.equal_sign) - 1)
    ELSE boot_arg.arg
BootArgValue(boot_arg) ==
    IF IsSome(boot_arg.equal_sign)
    THEN Some(SubSeq(boot_arg.arg, Unwrap(boot_arg.equal_sign), Len(boot_arg.arg)))
    ELSE None

\* The arguments of s from piece i on
RECURSIVE BootArgsFrom(_, _)
BootArgsFrom(s, i) ==
    IF i > Len(s) THEN <<>>
    ELSE IF is_separator(s[i]) THEN BootArgsFrom(s, i + 1)
    ELSE <<BootArg(SubSeq(s, i, FindEnd(s, i) - 1),
                   IF FindEnd(s, i) - i >= 2 /\ s[i + 1] = "=" THEN Some(2) ELSE None)>>
         \o BootArgsFrom(s, FindEnd(s, i))

\* BootArgsIterator::new: the C string must be UTF-8
BootArgsIterator(bootargs) ==
    IF \E i \in 1..Len(bootargs) : bootargs[i] = "<ff>" THEN Err("Invalid UTF-8")
    ELSE Ok(BootArgsFrom(bootargs, 1))

\* The accepted list of filter_out_dangerous_bootargs, any panic value being accepted
is_accepted_any_panic(arg, has_crashkernel, has_console) ==
    \/ BootArgName(arg) = <<"panic">>
    \/ BootArgName(arg) = <<"crashkernel">> /\ has_crashkernel
    \/ BootArgName(arg) = <<"console">> /\ has_console

\* The accepted list of filter_out_dangerous_bootargs and its predicates
is_accepted(arg, has_crashkernel, has_console) ==
    \/ BootArgName(arg) = <<"panic">> /\ BootArgValue(arg) = Some(<<"=", "-1">>)
    \/ BootArgName(arg) = <<"crashkernel">> /\ has_crashkernel
    \/ BootArgName(arg) = <<"console">> /\ has_console

\* The arguments of args that are accepted, in order
RECURSIVE Filtered(_, _, _)
Filtered(args, has_crashkernel, has_console) ==
    IF Len(args) = 0 THEN <<>>
    ELSE (IF is_accepted(Head(args), has_crashkernel, has_console) THEN <<Head(args)>> ELSE <<>>)
         \o Filtered(Tail(args), has_crashkernel, has_console)

\* The new C string: the arguments with one space between them, then the NUL
RECURSIVE NewBootargs(_, _)
NewBootargs(filtered, i) ==
    IF i > Len(filtered) THEN <<"<nul>">>
    ELSE (IF i # 1 THEN <<" ">> ELSE <<>>) \o filtered[i].arg \o NewBootargs(filtered, i + 1)

\* The property that setprop leaves for the given bytes, as getprop_str reads it
StrProp(bytes) ==
    IF Len(bytes) > 0 /\ bytes[Len(bytes)] = "<nul>"
    THEN [nul_terminated |-> TRUE, text |-> SubSeq(bytes, 1, Len(bytes) - 1)]
    ELSE [nul_terminated |-> FALSE, text |-> bytes]

\* The bytes of a string given by its pieces: "<nul>" and "<ff>" are one byte
RECURSIVE PiecesLen(_)
PiecesLen(pieces) ==
    IF Len(pieces) = 0 THEN 0
    ELSE (IF Head(pieces) \in {"<nul>", "<ff>"} THEN 1 ELSE Len(Head(pieces)))
         + PiecesLen(Tail(pieces))

\* The byte length of the bootargs property of /chosen, if it is there
BootargsLen(prop) ==
    IF IsSome(prop)
    THEN Some(PiecesLen(Unwrap(prop).text) + (IF Unwrap(prop).nul_terminated THEN 1 ELSE 0))
    ELSE None

\* filter_out_dangerous_bootargs: setprop of the new string, which returns NoSpace when
\* the blob cannot grow by what the string takes more than the property it replaces
filter_out_dangerous_bootargs(t, bootargs) ==
    LET has_crashkernel == has_common_debug_policy(t, "ramdump")
        has_console == has_common_debug_policy(t, "log")
        args == BootArgsIterator(bootargs)
        new_bootargs == NewBootargs(Filtered(Val(args), Val(has_crashkernel),
                                             Val(has_console)), 1)
        growth == SetpropGrowth(t, BootargsLen(Unwrap(t.chosen).bootargs), "bootargs",
                                PiecesLen(new_bootargs))
    IN  IF IsErr(has_crashkernel) THEN has_crashkernel
        ELSE IF IsErr(has_console) THEN has_console
        ELSE IF IsErr(args) THEN Err("BadValue")
        ELSE IF IsNone(t.chosen) THEN Err("NotFound")
        ELSE IF growth > FreeBytes(t) THEN Err("NoSpace")
        ELSE Ok([t EXCEPT !.chosen = Some([Unwrap(t.chosen) EXCEPT !.bootargs =
                                               Some(StrProp(new_bootargs))]),
                          !.strings = @ \cup {"bootargs"},
                          !.used = @ + growth])

\* One entry of the record of tree operations of a call, and the two ways a step ends
Op(op, failed) == [op |-> op, failed |-> failed]
Done(s, t, op) == [s EXCEPT !.fdt = t, !.ops = Append(@, Op(op, FALSE))]
Failed(s, op, e) == [s EXCEPT !.ops = Append(@, Op(op, TRUE)), !.error = Some(e)]
Apply(s, r, op) == IF IsErr(r) THEN Failed(s, op, Val(r)) ELSE Done(s, Val(r), op)

\* The tree operations of apply_debug_policy
DebugPolicyOps(t, debug_policy) ==
    IF ~debug_policy.check_full THEN <<Op("from_mut_slice", TRUE)>>
    ELSE IF IsErr(apply_overlay(t, debug_policy).result)
         THEN <<Op("apply_overlay", TRUE), Op("copy_from_slice", FALSE)>>
         ELSE <<Op("apply_overlay", FALSE)>>

\* A modify_for_next_stage that packs before it filters the bootargs
modify_for_next_stage_steps_packing_early ==
    <<"unpack", "apply_debug_policy", "unpack_again", "patch_dice_node", "avf,strict-boot",
      "avf,new-instance", "kaslr-seed", "pack", "filter_out_dangerous_bootargs">>

\* The statements of modify_for_next_stage, in program order
modify_for_next_stage_steps ==
    <<"unpack", "apply_debug_policy", "unpack_again", "patch_dice_node", "avf,strict-boot",
      "avf,new-instance", "kaslr-seed", "filter_out_dangerous_bootargs", "pack">>

\* One statement of modify_for_next_stage on s = [fdt, backup, applied, ops, error], a
\* being the other arguments of the call
NextStageStep(s, step, a) ==
    CASE step = "unpack" -> Apply([s EXCEPT !.backup = as_slice(s.fdt)], unpack(s.fdt), "unpack")
      [] step = "apply_debug_policy" ->
            IF IsNone(a.debug_policy) THEN s
            ELSE LET r == apply_debug_policy(s.fdt, s.backup, Unwrap(a.debug_policy))
                 IN  IF IsErr(r.result) THEN Failed(s, "copy_from_slice", Val(r.result))
                     ELSE [s EXCEPT !.fdt = r.fdt, !.applied = Some(Val(r.result)),
                                    !.ops = @ \o DebugPolicyOps(s.fdt, Unwrap(a.debug_policy))]
      [] step = "unpack_again" ->
            IF s.applied = Some(FALSE) THEN Apply(s, unpack(s.fdt), "unpack") ELSE s
      [] step = "patch_dice_node" ->
            Apply(s, patch_dice_node(s.fdt, a.bcc.addr, a.bcc.size), "setprop_inplace")
      [] step = "avf,strict-boot" ->
            IF IsNone(s.fdt.chosen) THEN s
            ELSE LET r == empty_or_delete_prop(s.fdt, step, a.strict_boot)
                 IN  IF a.strict_boot THEN Apply(s, r, "setprop")
                     ELSE IF IsErr(r) THEN Failed(s, "delprop", Val(r))
                     ELSE [s EXCEPT !.fdt = Val(r),
                                    !.ops = Append(@, Op("delprop", IsErr(delprop(s.fdt, step))))]
      [] step = "avf,new-instance" ->
            IF IsNone(s.fdt.chosen) THEN s
            ELSE LET r == empty_or_delete_prop(s.fdt, step, a.new_instance)
                 IN  IF a.new_instance THEN Apply(s, r, "setprop")
                     ELSE IF IsErr(r) THEN Failed(s, "delprop", Val(r))
                     ELSE [s EXCEPT !.fdt = Val(r),
                                    !.ops = Append(@, Op("delprop", IsErr(delprop(s.fdt, step))))]
      [] step = "kaslr-seed" ->
            IF IsNone(s.fdt.chosen) THEN s
            ELSE LET seed == setprop_inplace(Unwrap(s.fdt.chosen).kaslr_seed,
                                             to_be_bytes(a.kaslr_seed))
                 IN  IF IsErr(seed) THEN Failed(s, "setprop_inplace", Val(seed))
                     ELSE Done(s, [s.fdt EXCEPT !.chosen = Some([Unwrap(s.fdt.chosen) EXCEPT
                                                     !.kaslr_seed = Val(seed)])],
                               "setprop_inplace")
      [] step = "filter_out_dangerous_bootargs" ->
            IF a.debuggable THEN s
            ELSE LET bootargs == read_bootargs_from(s.fdt)
                 IN  IF IsErr(bootargs) THEN [s EXCEPT !.error = Some(Val(bootargs))]
                     ELSE IF IsNone(Val(bootargs)) THEN s
                     ELSE Apply(s, filter_out_dangerous_bootargs(s.fdt, Unwrap(Val(bootargs))),
                                "setprop")
      [] step = "pack" -> Apply(s, pack(s.fdt), "pack")

\* The statements from the i-th on, up to the first that fails
RECURSIVE NextStageFrom(_, _, _)
NextStageFrom(s, i, a) ==
    IF i > Len(modify_for_next_stage_steps) \/ IsSome(s.error) THEN s
    ELSE NextStageFrom(NextStageStep(s, modify_for_next_stage_steps[i], a), i + 1, a)

\* modify_for_next_stage: what it returns, the tree it leaves and the tree operations it
\* has performed
modify_for_next_stage(t, bcc, new_instance, strict_boot, debug_policy, debuggable, kaslr_seed) ==
    LET s == NextStageFrom([fdt |-> t, backup |-> t, applied |-> None, ops |-> <<>>,
                            error |-> None],
                           1,
                           [bcc |-> bcc, new_instance |-> new_instance,
                            strict_boot |-> strict_boot, debug_policy |-> debug_policy,
                            debuggable |-> debuggable, kaslr_seed |-> kaslr_seed])
    IN  [result |-> IF IsSome(s.error) THEN Err(Unwrap(s.error)) ELSE Ok(Unit),
         fdt |-> s.fdt, ops |-> s.ops]

(***************************************************************************)
(* Fdt::copy_from_slice on the bytes of the buffer.  A blob starts with    *)
(* the header: the magic in bytes 0..4, totalsize in bytes 4..8, both      *)
(* big-endian.                                                             *)
(***************************************************************************)
\* Fdt::totalsize: u32::from_be of the header field
totalsize(buffer) ==
    ((buffer[5] * 256 + buffer[6]) * 256 + buffer[7]) * 256 + buffer[8]

\* core::cmp::max on usize values that fit one machine word of the checker
max_usize(a, b) == IF a >= b THEN a ELSE b

\* A copy_from_slice that does not zeroize what is left of the original tree
copy_from_slice_bytes_without_fill(buffer, new_fdt) ==
    IF Len(buffer) < Len(new_fdt) THEN [result |-> Err("NoSpace"), buffer |-> buffer]
    ELSE [result |-> Ok(Unit),
          buffer |-> new_fdt \o SubSeq(buffer, Len(new_fdt) + 1, Len(buffer))]

\* A copy_from_slice that zeroizes one byte more than the original tree took
copy_from_slice_bytes_filling_one_more(buffer, new_fdt) ==
    IF Len(buffer) < Len(new_fdt) THEN [result |-> Err("NoSpace"), buffer |-> buffer]
    ELSE IF max_usize(Len(new_fdt), totalsize(buffer)) + 1 > Len(buffer)
    THEN [result |-> Panic,
          buffer |-> new_fdt \o SubSeq(buffer, Len(new_fdt) + 1, Len(buffer))]
    ELSE [result |-> Ok(Unit),
          buffer |-> new_fdt
                     \o [i \in 1..(max_usize(Len(new_fdt), totalsize(buffer)) + 1
                                        - Len(new_fdt)) |-> 0]
                     \o SubSeq(buffer, max_usize(Len(new_fdt), totalsize(buffer)) + 2,
                               Len(buffer))]

\* Fdt::copy_from_slice: what it returns and the buffer it leaves.  The range zeroized
\* ends at the totalsize read from the header of the old tree; a range that ends after
\* the buffer makes the slice index panic, after the new tree has been copied.
copy_from_slice_bytes(buffer, new_fdt) ==
    IF Len(buffer) < Len(new_fdt) THEN [result |-> Err("NoSpace"), buffer |-> buffer]
    ELSE IF max_usize(Len(new_fdt), totalsize(buffer)) > Len(buffer)
    THEN [result |-> Panic,
          buffer |-> new_fdt \o SubSeq(buffer, Len(new_fdt) + 1, Len(buffer))]
    ELSE [result |-> Ok(Unit),
          buffer |-> new_fdt
                     \o [i \in 1..(max_usize(Len(new_fdt), totalsize(buffer)) - Len(new_fdt)) |-> 0]
                     \o SubSeq(buffer, max_usize(Len(new_fdt), totalsize(buffer)) + 1, Len(buffer))]

\* Fdt::as_slice: &self.buffer[..self.totalsize()]
as_slice_bytes(buffer) == SubSeq(buffer, 1, totalsize(buffer))

\* u32::to_be_bytes
to_be_bytes_u32(n) ==
    <<(n \div 16777216) % 256, (n \div 65536) % 256, (n \div 256) % 256, n % 256>>

\* Fdt::unpack on the bytes of the header: fdt_open_into(buf, buf, capacity) declares the
\* capacity as the total size
unpack_bytes(buffer) ==
    SubSeq(buffer, 1, 4) \o to_be_bytes_u32(Len(buffer)) \o SubSeq(buffer, 9, Len(buffer))

\* A failed Fdt::apply_overlay on the bytes: fdt_overlay_apply has merged a part of the
\* overlay into the structure and strings blocks, which `merged` stands for, and has set
\* the magic to !0; it takes its room within the total size and does not change it
apply_overlay_failed_bytes(buffer, merged) ==
    <<255, 255, 255, 255>> \o SubSeq(buffer, 5, 8)
        \o [i \in 1..(Len(buffer) - 8) |-> (merged + i) % 256]

\* modify_for_next_stage and apply_debug_policy on a debug policy that fails to apply:
\* the snapshot of fdt.as_slice(), unpack, the failed overlay, and copy_from_slice of
\* the snapshot
restore_backup(buffer, merged) ==
    copy_from_slice_bytes(apply_overlay_failed_bytes(unpack_bytes(buffer), merged),
                          as_slice_bytes(buffer))

(***************************************************************************)
(* Construction of an Fdt and the byte ranges its getters return.  A blob  *)
(* is the buffer (capacity bytes) as libfdt reads it: whether the magic is *)
(* right, the totalsize and off_dt_struct fields of its header, and the    *)
(* tokens of its structure block, each with the length it declares:        *)
(* BEGIN_NODE with the length of the node name, PROP with the length of    *)
(* the value, END_NODE and END.                                            *)
(***************************************************************************)
\* The size of struct fdt_header, and of the memory reservation block of an empty tree
FDT_V17_SIZE == 40
EmptyRsvmapSize == 16

\* The bytes a token takes in the structure block: the tag; for a node the name and its
\* NUL, padded; for a property the length, the name offset and the value, padded
TokenSize(token) ==
    CASE token.tag = "BEGIN_NODE" -> 4 + FDT_TAGALIGN(token.len + 1)
      [] token.tag = "PROP" -> 12 + FDT_TAGALIGN(token.len)
      [] OTHER -> 4

\* The offset in the buffer of the i-th token
RECURSIVE TokenOffset(_, _)
TokenOffset(blob, i) ==
    IF i = 1 THEN blob.off_dt_struct
    ELSE TokenOffset(blob, i - 1) + TokenSize(blob.tokens[i - 1])

\* The nesting depth after the first i tokens, -1 once an END_NODE had no node to close
RECURSIVE Depth(_, _)
Depth(tokens, i) ==
    IF i = 0 THEN 0
    ELSE IF Depth(tokens, i - 1) < 0 THEN -1
    ELSE IF tokens[i].tag = "BEGIN_NODE" THEN Depth(tokens, i - 1) + 1
    ELSE IF tokens[i].tag = "END_NODE" THEN Depth(tokens, i - 1) - 1
    ELSE Depth(tokens, i - 1)

\* Fdt::check_full: fdt_check_full(ptr, capacity) checks the header against the capacity
\* and walks the structure block to its END
check_full(blob) ==
    IF blob.capacity < FDT_V17_SIZE THEN Err("Truncated")
    ELSE IF ~blob.magic THEN Err("BadMagic")
    ELSE IF blob.totalsize < FDT_V17_SIZE \/ blob.totalsize > blob.capacity THEN Err("Truncated")
    ELSE IF blob.off_dt_struct < FDT_V17_SIZE THEN Err("BadLayout")
    ELSE IF Len(blob.tokens) = 0
            \/ TokenOffset(blob, Len(blob.tokens) + 1) > blob.totalsize THEN Err("Truncated")
    ELSE IF \/ blob.tokens[1].tag # "BEGIN_NODE"
            \/ blob.tokens[Len(blob.tokens)].tag # "END"
            \/ \E i \in 1..(Len(blob.tokens) - 1) :
                   \/ blob.tokens[i].tag = "END"
                   \/ Depth(blob.tokens, i) < (IF i = Len(blob.tokens) - 1 THEN 0 ELSE 1)
                   \/ (i = Len(blob.tokens) - 1 /\ Depth(blob.tokens, i) # 0)
         THEN Err("BadStructure")
    ELSE Ok(Unit)

\* A from_slice that returns the unchecked wrapper
from_slice_without_check_full(blob) == Ok(blob)

\* Fdt::from_slice and Fdt::from_mut_slice: unchecked_from_slice, then check_full()?
from_slice(blob) == IF IsErr(check_full(blob)) THEN check_full(blob) ELSE Ok(blob)
from_mut_slice(blob) == IF IsErr(check_full(blob)) THEN check_full(blob) ELSE Ok(blob)

\* fdt_create_empty_tree in a buffer of the given length: a root node without name
EmptyTree(capacity) ==
    [capacity |-> capacity, magic |-> TRUE,
     totalsize |-> FDT_V17_SIZE + EmptyRsvmapSize + 16,
     off_dt_struct |-> FDT_V17_SIZE + EmptyRsvmapSize,
     tokens |-> <<[tag |-> "BEGIN_NODE", len |-> 0], [tag |-> "END_NODE", len |-> 0],
                  [tag |-> "END", len |-> 0]>>]

\* Fdt::create_empty_tree
create_empty_tree(capacity) ==
    IF capacity < EmptyTree(capacity).totalsize THEN Err("NoSpace")
    ELSE IF IsErr(check_full(EmptyTree(capacity))) THEN check_full(EmptyTree(capacity))
    ELSE Ok(EmptyTree(capacity))

\* Fdt::get_from_ptr: the range offset..offset+len of the buffer, if the buffer has it
get_from_ptr(blob, offset, len) ==
    IF offset + len <= blob.capacity THEN Ok([start |-> offset, end |-> offset + len])
    ELSE Err("Internal")

\* FdtNode::name and FdtNode::getprop for the i-th token: the name with its NUL, the value
node_name(blob, i) == get_from_ptr(blob, TokenOffset(blob, i) + 4, blob.tokens[i].len + 1)
getprop(blob, i) == get_from_ptr(blob, TokenOffset(blob, i) + 12, blob.tokens[i].len)

\* What the getters return for every node and property of a constructed tree
GetterResults(blob) ==
    {node_name(blob, i) : i \in {j \in 1..Len(blob.tokens) : blob.tokens[j].tag = "BEGIN_NODE"}}
    \cup {getprop(blob, i) : i \in {j \in 1..Len(blob.tokens) : blob.tokens[j].tag = "PROP"}}

(***************************************************************************)
(* Fdt::unpack and Fdt::pack on a blob.  Besides the header fields above,  *)
(* the blob has off_mem_rsvmap, off_dt_strings and size_dt_strings, and    *)
(*   mem   for each of the three blocks, the offset at which its bytes lie *)
(*         in the buffer (at) and whether they are still its bytes         *)
(*         (intact)                                                        *)
(* The header says where a block is read; mem says where it is.  A block   *)
(* is read as it was when the header points at its bytes and no copy has   *)
(* overwritten them.  fdt_open_into and fdt_pack move the blocks with      *)
(* memmove and rewrite the header.                                         *)
(***************************************************************************)
\* The bytes of the structure block
StructSize(blob) == TokenOffset(blob, Len(blob.tokens) + 1) - blob.off_dt_struct

\* The memory reservation block, the structure block and the strings block; where the
\* header puts each, and the bytes each takes
Blocks == {"rsvmap", "struct", "strings"}
BlockOffset(blob, b) ==
    CASE b = "rsvmap" -> blob.off_mem_rsvmap
      [] b = "struct" -> blob.off_dt_struct
      [] OTHER -> blob.off_dt_strings
BlockSize(blob, b) ==
    CASE b = "rsvmap" -> EmptyRsvmapSize
      [] b = "struct" -> StructSize(blob)
      [] OTHER -> blob.size_dt_strings

\* The offsets of the blocks put one after the other behind the header, and the end of
\* the last: FDT_ALIGN(sizeof(struct fdt_header), 8) is the size of the header
PackedOffset(blob, b) ==
    CASE b = "rsvmap" -> FDT_V17_SIZE
      [] b = "struct" -> FDT_V17_SIZE + EmptyRsvmapSize
      [] OTHER -> FDT_V17_SIZE + EmptyRsvmapSize + StructSize(blob)
PackedSize(blob) == PackedOffset(blob, "strings") + blob.size_dt_strings

\* fdt_blocks_misordered_
fdt_blocks_misordered_(blob) ==
    \/ blob.off_mem_rsvmap < FDT_V17_SIZE
    \/ blob.off_dt_struct < blob.off_mem_rsvmap + EmptyRsvmapSize
    \/ blob.off_dt_strings < blob.off_dt_struct + StructSize(blob)
    \/ blob.totalsize < blob.off_dt_strings + blob.size_dt_strings

\* Whether the n bytes at a and the m bytes at b have a byte in common
Overlap(a, n, b, m) == n > 0 /\ m > 0 /\ a < b + m /\ b < a + n

\* memmove(dst, fdt + fdt_off_...(fdt), size) for block b: the bytes the header names
\* are copied to dst, and the bytes of another block that lie there are lost
memmove(blob, b, dst) ==
    [blob EXCEPT !.mem =
        [x \in Blocks |->
            IF x = b
            THEN [at |-> dst,
                  intact |-> blob.mem[b].intact /\ blob.mem[b].at = BlockOffset(blob, b)]
            ELSE IF Overlap(dst, BlockSize(blob, b), blob.mem[x].at, BlockSize(blob, x))
            THEN [blob.mem[x] EXCEPT !.intact = FALSE]
            ELSE blob.mem[x]]]

\* fdt_packblocks_(old, new, ...) with new = old + base: the three blocks are moved in
\* this order to their packed offsets from `new`, whose header gets these offsets.  Each
\* memmove reads the offset of its block from the header of `old` before that field is
\* written.
MovedBlocks(blob, base) ==
    memmove(memmove(memmove(blob, "rsvmap", base + PackedOffset(blob, "rsvmap")),
                    "struct", base + PackedOffset(blob, "struct")),
            "strings", base + PackedOffset(blob, "strings"))
fdt_packblocks_(blob, base) ==
    [MovedBlocks(blob, base) EXCEPT !.off_mem_rsvmap = PackedOffset(blob, "rsvmap"),
                                    !.off_dt_struct = PackedOffset(blob, "struct"),
                                    !.off_dt_strings = PackedOffset(blob, "strings")]

\* memmove(buf, tmp, newsize): the tree built at buf + base is moved to the start
memmove_tree(blob, base) ==
    [blob EXCEPT !.mem = [x \in Blocks |-> [blob.mem[x] EXCEPT !.at = @ - base]]]

\* An fdt_open_into that builds the reordered tree at the start of the buffer, where
\* the old tree lies
fdt_open_into_at_start(blob, bufsize) ==
    IF ~blob.magic THEN Err("BadMagic")
    ELSE IF ~fdt_blocks_misordered_(blob)
    THEN IF blob.totalsize > bufsize THEN Err("NoSpace")
         ELSE Ok([blob EXCEPT !.totalsize = bufsize])
    ELSE IF bufsize < PackedSize(blob) THEN Err("NoSpace")
    ELSE Ok([fdt_packblocks_(blob, 0) EXCEPT !.totalsize = bufsize])

\* fdt_open_into(fdt, buf, bufsize) in place, buf = fdt.  Blocks in order stay where
\* they are and the total size becomes bufsize.  Blocks out of order are packed in order
\* into a new tree; built at buf it would overlap the old tree, so it is built right
\* after the old tree, if the buffer has room for both, and then moved to buf.
fdt_open_into(blob, bufsize) ==
    IF ~blob.magic THEN Err("BadMagic")
    ELSE IF ~fdt_blocks_misordered_(blob)
    THEN IF blob.totalsize > bufsize THEN Err("NoSpace")
         ELSE Ok([blob EXCEPT !.totalsize = bufsize])
    ELSE IF bufsize < PackedSize(blob) THEN Err("NoSpace")
    ELSE IF blob.totalsize + PackedSize(blob) > bufsize THEN Err("NoSpace")
    ELSE Ok([memmove_tree(fdt_packblocks_(blob, blob.totalsize), blob.totalsize)
                 EXCEPT !.totalsize = bufsize])

\* fdt_pack(fdt): fdt_rw_probe_ refuses blocks out of order with -FDT_ERR_BADLAYOUT; the
\* blocks are packed in place and the total size becomes the end of the strings block
fdt_pack(blob) ==
    IF ~blob.magic THEN Err("BadMagic")
    ELSE IF fdt_blocks_misordered_(blob) THEN Err("BadLayout")
    ELSE Ok([fdt_packblocks_(blob, 0) EXCEPT !.totalsize = PackedSize(blob)])

\* Fdt::unpack: fdt_open_into with the capacity, and Fdt::pack
Fdt_unpack(blob) == fdt_open_into(blob, blob.capacity)
Fdt_pack(blob) == fdt_pack(blob)

(***************************************************************************)
(* zipfuse: the tables of open files and open directories.  A table maps a *)
(* handle, which is the inode number, to its entry; an entry keeps the     *)
(* open_count and what was cached at the first open.  The inode table      *)
(* (inode.rs) holds directories and files; a compressed file is read whole *)
(* at the first open, which can fail on the archive.                       *)
(***************************************************************************)
\* HashMap::insert and HashMap::remove
Insert(table, handle, entry) ==
    [h \in DOMAIN table \cup {handle} |-> IF h = handle THEN entry ELSE table[h]]
Remove(table, handle) == [h \in DOMAIN table \ {handle} |-> table[h]]

\* ebadf()
EBADF == Err("EBADF")

\* InodeTable: inode 1 is the root directory, inode 2 a file, and there is no inode 3
InodeTable == [i \in {1, 2} |-> IF i = 1 THEN "directory" ELSE "file"]

\* ZipFuse::find_inode, InodeData::get_zip_index, InodeData::get_directory
find_inode(inode) == IF inode \in DOMAIN InodeTable THEN Ok(InodeTable[inode]) ELSE EBADF
get_zip_index(inode_data) == IF inode_data = "file" THEN Some("zip_index") ELSE None
get_directory(inode_data) == IF inode_data = "directory" THEN Some("directory") ELSE None

\* ZipFuse::open; zip_file is what reading the archive entry gives: the content to cache
\* or an I/O error.  open_count is a u32; the calls are bounded far below 2^32.
open(files, inode, zip_file) ==
    IF inode \in DOMAIN files
    THEN IF files[inode].open_count = 0 THEN [result |-> EBADF, table |-> files]
         ELSE [result |-> Ok(Some(inode)),
               table |-> [files EXCEPT ![inode].open_count = @ + 1]]
    ELSE IF IsErr(find_inode(inode)) THEN [result |-> find_inode(inode), table |-> files]
    ELSE IF IsNone(get_zip_index(Val(find_inode(inode)))) THEN [result |-> EBADF, table |-> files]
    ELSE IF IsErr(zip_file) THEN [result |-> zip_file, table |-> files]
    ELSE [result |-> Ok(Some(inode)),
          table |-> Insert(files, inode, [open_count |-> 1, content |-> Val(zip_file)])]

\* A release that removes the entry whatever its count
release_always_removing(files, inode) ==
    IF inode \in DOMAIN files
    THEN [result |-> Ok(Unit), table |-> Remove(files, inode)]
    ELSE [result |-> EBADF, table |-> files]

\* ZipFuse::release: open_count.checked_sub(1) is compared with 0 and not stored
release(files, inode) ==
    IF inode \in DOMAIN files
    THEN IF files[inode].open_count = 0 THEN [result |-> EBADF, table |-> files]
         ELSE IF files[inode].open_count - 1 = 0
         THEN [result |-> Ok(Unit), table |-> Remove(files, inode)]
         ELSE [result |-> Ok(Unit), table |-> files]
    ELSE [result |-> EBADF, table |-> files]

\* ZipFuse::opendir
opendir(dirs, inode) ==
    IF inode \in DOMAIN dirs
    THEN IF dirs[inode].open_count = 0 THEN [result |-> EBADF, table |-> dirs]
         ELSE [result |-> Ok(Some(inode)),
               table |-> [dirs EXCEPT ![inode].open_count = @ + 1]]
    ELSE IF IsErr(find_inode(inode)) THEN [result |-> find_inode(inode), table |-> dirs]
    ELSE IF IsNone(get_directory(Val(find_inode(inode)))) THEN [result |-> EBADF, table |-> dirs]
    ELSE [result |-> Ok(Some(inode)),
          table |-> Insert(dirs, inode, [open_count |-> 1, buf |-> "entries"])]

\* ZipFuse::releasedir
releasedir(dirs, inode) ==
    IF inode \in DOMAIN dirs
    THEN IF dirs[inode].open_count = 0 THEN [result |-> EBADF, table |-> dirs]
         ELSE IF dirs[inode].open_count - 1 = 0
         THEN [result |-> Ok(Unit), table |-> Remove(dirs, inode)]
         ELSE [result |-> Ok(Unit), table |-> dirs]
    ELSE [result |-> EBADF, table |-> dirs]

(***************************************************************************)
(* pvmfw/avb: the descriptor collection.  A VBMeta image is the sequence   *)
(* of its descriptors and the place, if any, at which the enumeration of   *)
(* libavb finds the image malformed.  A descriptor is                      *)
(*   tag             "hash", "property" or "other"                         *)
(*   valid           whether its header and body validate                  *)
(*   partition_name  of a hash descriptor: a known PartitionName or        *)
(*                   "unknown"                                             *)
(*   key             of a property descriptor                              *)
(* Descriptors is [hash_descriptors, prop_descriptor].                     *)
(***************************************************************************)
\* Descriptors::default()
DefaultDescriptors == [hash_descriptors |-> <<>>, prop_descriptor |-> None]

\* Descriptor::from_descriptor_ptr: get_valid_descriptor, then the parser of the tag;
\* HashDescriptor::from_descriptor_ptr refuses a partition name that is not known
from_descriptor_ptr(d) ==
    IF ~d.valid THEN Err("Io")
    ELSE IF d.tag = "hash"
         THEN IF d.partition_name = "unknown" THEN Err("NoSuchValue") ELSE Ok(d)
    ELSE IF d.tag = "property" THEN Ok(d)
    ELSE Err("NoSuchValue")

\* A push_hash_descriptor that does not look for the partition name
push_hash_descriptor_unchecked(descriptors, d) ==
    Ok([descriptors EXCEPT !.hash_descriptors = Append(@, d)])

\* Descriptors::push_hash_descriptor
push_hash_descriptor(descriptors, d) ==
    IF \E i \in 1..Len(descriptors.hash_descriptors) :
           descriptors.hash_descriptors[i].partition_name = d.partition_name
    THEN Err("Io")
    ELSE Ok([descriptors EXCEPT !.hash_descriptors = Append(@, d)])

\* Descriptors::push_property_descriptor
push_property_descriptor(descriptors, d) ==
    IF IsSome(descriptors.prop_descriptor) THEN Err("Io")
    ELSE Ok([descriptors EXCEPT !.prop_descriptor = Some(d)])

\* Descriptors::push
push(descriptors, d) ==
    IF d.tag = "hash" THEN push_hash_descriptor(descriptors, d)
    ELSE push_property_descriptor(descriptors, d)

\* try_check_and_save_descriptor: the collection after the push, or the error
try_check_and_save_descriptor(d, descriptors) ==
    IF IsErr(from_descriptor_ptr(d)) THEN from_descriptor_ptr(d)
    ELSE push(descriptors, Val(from_descriptor_ptr(d)))

\* check_and_save_descriptor: user_data is the IoResult<Descriptors>; returns whether the
\* enumeration goes on, and what user_data holds afterwards
check_and_save_descriptor(d, user_data) ==
    IF IsErr(user_data) THEN [continue |-> FALSE, res |-> user_data]
    ELSE IF IsErr(try_check_and_save_descriptor(d, Val(user_data)))
         THEN [continue |-> FALSE, res |-> try_check_and_save_descriptor(d, Val(user_data))]
         ELSE [continue |-> TRUE, res |-> try_check_and_save_descriptor(d, Val(user_data))]

\* avb_descriptor_foreach from the i-th descriptor on: calls the callback on each
\* descriptor in order, stops with false when the callback returns false or the image is
\* malformed, and gives true at the end.  calls counts the callbacks made.
RECURSIVE avb_descriptor_foreach(_, _, _)
avb_descriptor_foreach(vbmeta, i, user_data) ==
    IF i > Len(vbmeta.descriptors) THEN [output |-> TRUE, res |-> user_data, calls |-> i - 1]
    ELSE IF vbmeta.malformed_at = i THEN [output |-> FALSE, res |-> user_data, calls |-> i - 1]
    ELSE IF ~check_and_save_descriptor(vbmeta.descriptors[i], user_data).continue
         THEN [output |-> FALSE,
               res |-> check_and_save_descriptor(vbmeta.descriptors[i], user_data).res,
               calls |-> i]
         ELSE avb_descriptor_foreach(
                  vbmeta, i + 1, check_and_save_descriptor(vbmeta.descriptors[i], user_data).res)

\* Descriptors::from_vbmeta
from_vbmeta(vbmeta) ==
    LET done == avb_descriptor_foreach(vbmeta, 1, Ok(DefaultDescriptors))
    IN  IF done.output = IsOk(done.res)
        THEN IF IsOk(done.res) THEN done.res
             ELSE Err(<<"InvalidDescriptors", Val(done.res)>>)
        ELSE Err(<<"InvalidMetadata">>)

(***************************************************************************)
(* The untrusted input trees: one accepted tree, and families that vary    *)
(* one node of it at a time.                                               *)
(***************************************************************************)
MaxInputCpus == 9
MaxMapIdx == 10
MaxCallCpus == 4
MaxCapacity == 11
MaxNewLen == 12
MaxNodes == 3
MaxOpens == 3
MaxReleases == 3
MaxDescriptors == 3

\* 0x1000_0000, 0x0200_0000
Size256M == U64(268435456)
Size32M == U64(33554432)

BaseRanges ==
    <<PciAddrRange(Memory64, Size32M, Size32M, Size32M),
      PciAddrRange(Memory64, U64HiLo(1, 0), U64HiLo(1, 0), U64HiLo(1, 0))>>

BaseTree ==
    [check_full |-> TRUE,
     config |-> Some([kernel_address |-> Some(PropU32(1024)), kernel_size |-> Some(PropU32(512))]),
     chosen |-> Some([initrd_start |-> None, initrd_end |-> None,
                      bootargs |-> Some([nul_terminated |-> TRUE, text |-> "panic=-1"])]),
     memory |-> Some([device_type |-> Some("memory"), reg |-> Some(<<Reg(MEM_START, Size256M)>>)]),
     cpus |-> CpuNodes(2),
     pci |-> Some([ranges |-> Some(BaseRanges),
                   interrupt_map_mask |-> Some(EXPECTED),
                   interrupt_map |-> Some(ExpectedIrqMaps(2, 7))]),
     serial |-> <<SerialNode(U64(1016))>>,
     swiotlb |-> Some([reg |-> None, size |-> Some(U64(2 * SIZE_4KB)),
                       alignment |-> Some(U64(SIZE_4KB))]),
     gic |-> Some([reg |-> Some(<<Reg(U64(1073676288), U64(65536)),
                                  Reg(U64(1073545216), U64(131072))>>)]),
     timer |-> Some([interrupts |-> Some(<<1, 13, 264, 1, 14, 264, 1, 11, 264, 1, 10, 264>>)]),
     avf |-> None,
     slash_avf |-> None,
     overlay |-> None,
     assigned |-> "none",
     other |-> "untrusted",
     strings |-> {},
     unpacked |-> FALSE,
     used |-> 2048,
     buffer_len |-> 8192]

\* The accepted tree without any of the facts parse_device_tree can do without
BareTree == [BaseTree EXCEPT !.config = None, !.chosen = None, !.serial = <<>>, !.avf = None]

\* /memory: first range, optional second range, device_type, missing pieces
MemBases == {MEM_START, U64Zero, SubWithBorrow(MEM_START, U64(SIZE_4KB)).diff,
             AddWithCarry(MEM_START, U64(SIZE_4KB)).sum}
MemSizes == {U64Zero, U64(1), U64(SIZE_4KB - 1), U64(SIZE_4KB), U64(SIZE_4KB + 1),
             Size256M, U64HiLo(1, 0), U64HiLo(1, 2048)}
SecondRanges == {<<>>, <<Reg(U64HiLo(1, 0), Size256M)>>, <<Reg(U64Zero, U64(1))>>,
                 <<Reg(MEM_START, U64Zero)>>}

MemoryNodes ==
    {Some([device_type |-> Some("memory"), reg |-> Some(<<Reg(b, sz)>> \o second)]) :
         b \in MemBases, sz \in MemSizes, second \in SecondRanges}
    \cup {None,
          Some([device_type |-> None, reg |-> Some(<<Reg(MEM_START, Size256M)>>)]),
          Some([device_type |-> Some("cpu"), reg |-> Some(<<Reg(MEM_START, Size256M)>>)]),
          Some([device_type |-> Some("memory"), reg |-> None]),
          Some([device_type |-> Some("memory"), reg |-> Some(<<>>)])}

MemoryTrees == {[BaseTree EXCEPT !.memory = m] : m \in MemoryNodes}

\* 0..MaxInputCpus CPU nodes in a row; CPU nodes with subnodes, compatible and not, and
\* nodes that are not compatible between them
CpuTrees ==
    {[BaseTree EXCEPT !.cpus = CpuNodes(n)] : n \in 0..MaxInputCpus}
    \cup {[BaseTree EXCEPT !.cpus = nodes] :
              nodes \in {<<[depth |-> 1, compatible |-> FALSE, live |-> TRUE]>>,
                         <<[depth |-> 1, compatible |-> FALSE, live |-> TRUE],
                           [depth |-> 2, compatible |-> TRUE, live |-> TRUE],
                           [depth |-> 2, compatible |-> TRUE, live |-> TRUE]>>,
                         <<CpuNode, [depth |-> 2, compatible |-> TRUE, live |-> TRUE],
                           [depth |-> 2, compatible |-> FALSE, live |-> TRUE], CpuNode>>}}

\* PCI ranges: each way a range can be wrong, in either place, and 0..3 ranges
BadRanges ==
    {PciAddrRange([range_type |-> ty, prefetchable |-> FALSE], Size32M, Size32M, Size32M) :
         ty \in PciRangeType \ {"Memory64"}}
    \cup {PciAddrRange([range_type |-> "Memory64", prefetchable |-> TRUE],
                       Size32M, Size32M, Size32M),
          PciAddrRange(Memory64, Size32M, U64Zero, Size32M),
          PciAddrRange(Memory64, U64Max, U64Max, U64(1)),
          PciAddrRange(Memory64, U64HiLo(255, 0), U64HiLo(255, 0), U64HiLo(1, 1)),
          PciAddrRange(Memory64, MEM_START, MEM_START, U64(1)),
          PciAddrRange(Memory64, Size32M, Size32M, U64HiLo(1, 0))}
GoodRanges ==
    {BaseRanges[1], BaseRanges[2],
     PciAddrRange(Memory64, U64HiLo(255, 0), U64HiLo(255, 0), U64HiLo(1, 0)),
     PciAddrRange(Memory64, MEM_START, MEM_START, U64Zero)}
SomeRanges == BadRanges \cup GoodRanges

RangesProps ==
    {None, Some(<<>>)}
    \cup {Some(<<r>>) : r \in GoodRanges}
    \cup {Some(<<a, b>>) : a \in SomeRanges, b \in GoodRanges}
    \cup {Some(<<a, b>>) : a \in GoodRanges, b \in SomeRanges}
    \cup {Some(<<a, b, c>>) : a \in {BaseRanges[1]}, b \in GoodRanges, c \in SomeRanges}

PciNode(ranges, mask, map) ==
    Some([ranges |-> ranges, interrupt_map_mask |-> mask, interrupt_map |-> map])

PciRangeTrees ==
    {[BaseTree EXCEPT !.pci = PciNode(r, Some(EXPECTED), Some(ExpectedIrqMaps(2, 7)))] :
         r \in RangesProps}
    \cup {[BaseTree EXCEPT !.pci = None]}

\* interrupt-map-mask: k masks and some spare cells; one cell of one mask changed
SpareCells(n) == [i \in 1..n |-> 0]
ChangeCell(cells, i, d) == [cells EXCEPT ![i] = cells[i] + d]

MaskProps ==
    {None}
    \cup {Some(Repeat(EXPECTED, k) \o SpareCells(n)) :
              k \in {0, 1, 2, MAX_IRQS - 1, MAX_IRQS}, n \in 0..(IRQ_MASK_CELLS - 1)}
    \cup {Some(Repeat(EXPECTED, MAX_IRQS + 1) \o SpareCells(n)) : n \in {0, 1}}
    \cup {Some(ChangeCell(EXPECTED, i, 1)) : i \in 1..IRQ_MASK_CELLS}
    \cup {Some(ChangeCell(Repeat(EXPECTED, 2), i, 1)) : i \in 1..(2 * IRQ_MASK_CELLS)}

PciMaskTrees ==
    {[BaseTree EXCEPT !.pci = PciNode(Some(BaseRanges), m, Some(ExpectedIrqMaps(2, 7)))] :
         m \in MaskProps}

\* interrupt-map: k entries and some spare cells; one cell of one entry changed
MapProps ==
    {None}
    \cup {Some(ExpectedIrqMaps(k, 7) \o SpareCells(n)) :
              k \in {0, 1, 3, MAX_IRQS}, n \in {0, 1, IRQ_MAP_CELLS - 1}}
    \cup {Some(ExpectedIrqMaps(MAX_IRQS + 1, 7) \o SpareCells(n)) : n \in {0, 1}}
    \cup {Some(ChangeCell(ExpectedIrqMaps(3, 7), i, d)) :
              i \in 1..(3 * IRQ_MAP_CELLS), d \in {1}}

PciMapTrees ==
    {[BaseTree EXCEPT !.pci = PciNode(Some(BaseRanges), Some(EXPECTED), m)] : m \in MapProps}

\* "ns16550a" nodes
SerialAddrs == {U64(1016), U64(760), U64(1000), U64(744), U64(4096)}
SerialLists ==
    {<<>>}
    \cup {<<SerialNode(a)>> : a \in SerialAddrs}
    \cup {<<SerialNode(a), SerialNode(b)>> : a, b \in SerialAddrs}
    \cup {<<SerialNode(U64(1016)), SerialNode(U64(760)), SerialNode(U64(1000)),
            SerialNode(U64(744))>> \o extra : extra \in {<<>>, <<SerialNode(U64(4096))>>}}
    \cup {<<[reg |-> None]>>, <<[reg |-> Some(<<>>)]>>}

SerialTrees == {[BaseTree EXCEPT !.serial = l] : l \in SerialLists}

\* "restricted-dma-pool" node
PoolSizes == {U64Zero, U64(1), U64(SIZE_4KB), U64(SIZE_4KB + 1), U64(2 * SIZE_4KB),
              Size256M, AddWithCarry(Size256M, U64(SIZE_4KB)).sum, U64Max,
              SubWithBorrow(U64Max, U64(SIZE_4KB - 1)).diff}
PoolAligns == {U64Zero, U64(1), U64(SIZE_4KB), U64(3 * SIZE_4KB), U64(SIZE_4KB + 8)}
PoolAddrs == {U64Zero, MEM_START, AddWithCarry(MEM_START, U64(SIZE_4KB)).sum,
              AddWithCarry(MEM_START, U64(17)).sum,
              SubWithBorrow(MEM_START, U64(SIZE_4KB)).diff,
              AddWithCarry(MEM_START, Size256M).sum}

SwiotlbNodes ==
    {None,
     Some([reg |-> Some(<<>>), size |-> None, alignment |-> None]),
     Some([reg |-> None, size |-> None, alignment |-> Some(U64(SIZE_4KB))]),
     Some([reg |-> None, size |-> Some(U64(SIZE_4KB)), alignment |-> None])}
    \cup {Some([reg |-> None, size |-> Some(sz), alignment |-> Some(al)]) :
              sz \in PoolSizes, al \in PoolAligns}
    \cup {Some([reg |-> Some(<<Reg(a, sz)>>), size |-> x, alignment |-> x]) :
              a \in PoolAddrs, sz \in PoolSizes, x \in {None, Some(U64(1))}}

SwiotlbTrees == {[BaseTree EXCEPT !.swiotlb = n] : n \in SwiotlbNodes}

\* Everything no validate step looks at
BootargsProps == {None, Some([nul_terminated |-> FALSE, text |-> "panic=-1"])}
                 \cup {Some([nul_terminated |-> TRUE, text |-> b]) :
                           b \in {"panic=-1", "console=ttyAMA0 foo=bar", ""}}
InitrdProps == {<<None, None>>, <<Some(PropU32(4096)), None>>,
                <<Some(PropU32(4096)), Some(PropU32(8192))>>,
                <<Some(PropU32(8192)), Some(PropU32(4096))>>,
                <<Some([len |-> 8, val |-> 4096]), Some(PropU32(8192))>>}
AvfNodes == {None, Some([vendor_public_key |-> None]),
             Some([vendor_public_key |-> Some("key A")]),
             Some([vendor_public_key |-> Some("key B")])}
ConfigNodes == {None, BaseTree.config,
                Some([kernel_address |-> Some(PropU32(2048)), kernel_size |-> None]),
                Some([kernel_address |-> Some([len |-> 2, val |-> 0]),
                      kernel_size |-> Some(PropU32(512))])}

OtherTrees ==
    {[BaseTree EXCEPT !.chosen = Some([initrd_start |-> i[1], initrd_end |-> i[2],
                                       bootargs |-> b]),
                      !.avf = a, !.other = o] :
         b \in BootargsProps, i \in InitrdProps, a \in AvfNodes,
         o \in {"untrusted", "untrusted, with more nodes"}}
    \cup {[BaseTree EXCEPT !.config = c] : c \in ConfigNodes}
    \cup {[BaseTree EXCEPT !.chosen = None], [BaseTree EXCEPT !.check_full = FALSE],
          [BaseTree EXCEPT !.gic = None, !.timer = None], BareTree}
    \* buffers shorter than the template, as long as it, one byte too short for the
    \* bootargs, and just long enough for them
    \cup {[BaseTree EXCEPT !.buffer_len = Template.buffer_len + d] : d \in {-1, 0, 32, 33}}
    \cup {[BaseTree EXCEPT !.buffer_len = Template.buffer_len - 1, !.memory = None]}
    \* buffers as long as the template whose tree has a vendor key and no bootargs, with
    \* and without an initrd range
    \cup {[BaseTree EXCEPT !.buffer_len = Template.buffer_len,
                           !.chosen = Some([initrd_start |-> i[1], initrd_end |-> i[2],
                                            bootargs |-> None]),
                           !.avf = Some([vendor_public_key |-> Some("key A")])] :
              i \in {<<None, None>>, <<Some(PropU32(4096)), Some(PropU32(8192))>>}}

\* The trees that say of assigned devices what a VM DTBO is matched with
AssignedTrees ==
    {[BaseTree EXCEPT !.assigned = a, !.other = o] :
         a \in {"invalid", "devices A", "devices B"},
         o \in {"untrusted", "untrusted, with more nodes"}}

InputTrees ==
    MemoryTrees \cup CpuTrees \cup PciRangeTrees \cup PciMaskTrees \cup PciMapTrees
    \cup SerialTrees \cup SwiotlbTrees \cup OtherTrees \cup AssignedTrees

\* The VM DTBO handed in with the tree
VmDtbos ==
    {[check_full |-> FALSE, assignment |-> "none", filter_ok |-> TRUE, applies |-> TRUE,
      growth |-> 64, patch_ok |-> TRUE]}
    \cup {[check_full |-> TRUE, assignment |-> a, filter_ok |-> TRUE, applies |-> TRUE,
           growth |-> 64, patch_ok |-> TRUE] : a \in {"none", "error", "some"}}
    \cup {[check_full |-> TRUE, assignment |-> "some", filter_ok |-> f, applies |-> o,
           growth |-> g, patch_ok |-> q] : f, o, q \in BOOLEAN, g \in {64, 8192}}


\* The inputs whose run hangs on the build: the number of CPUs is what patch_num_cpus,
\* patch_gic and patch_timer compare with the template and compute with.  The other
\* inputs run on the reference template in a build that checks overflow.
BuildMatters(t) == t \in CpuTrees \cup {BaseTree}

InitSanitize ==
    /\ template \in Templates
    /\ pc = "from_mut_slice"
    /\ \/ input \in InputTrees /\ vm_dtbo = None
       \/ /\ input \in {BaseTree, [BaseTree EXCEPT !.cpus = <<>>]} \cup AssignedTrees
          /\ vm_dtbo \in {Some(d) : d \in VmDtbos}
    /\ fdt = input
    /\ info = EmptyInfo
    /\ result = None
    /\ failed_at = None
    /\ call = NoCall
    /\ ret = None
    /\ open_files = <<>>
    /\ open_dirs = <<>>
    /\ history = NoHistory
    /\ overflow_checks \in BOOLEAN
    /\ BuildMatters(input) \/ (template = ReferenceTemplate /\ overflow_checks)

(***************************************************************************)
(* Direct calls of the validation functions, on arguments of their own     *)
(* parameter types (wider than what a tree of bounded size can produce).   *)
(***************************************************************************)
CpuCounts ==
    {U64Zero, U64(1), U64(2), U64(TemplateNumCpus), U64(MaxInputCpus), U64HiLo(1, 0),
     <<0, 32767, Limb - 1, Limb - 1>>,      \* 2^47 - 1
     <<0, 32768, 0, 0>>,                    \* 2^47
     <<0, 32768, 0, 1>>, <<1, 0, 0, 0>>, <<32768, 0, 0, 0>>, U64Max}

CallMemoryRanges ==
    {Range(MEM_START, AddWithCarry(MEM_START, Size256M).sum),
     Range(MEM_START, AddWithCarry(MEM_START, U64(SIZE_4KB)).sum),
     Range(U64Zero, U64HiLo(1, 0))}

CallBusAddrs == {U64Zero, Size32M, MEM_START, SubWithBorrow(MEM_START, U64(1)).diff,
                 AddWithCarry(MEM_START, Size256M).sum, U64HiLo(255, 0), U64HiLo(256, 0),
                 U64Max}
CallSizes == {U64Zero, U64(1), Size32M, U64HiLo(1, 0), U64HiLo(1, 1), U64Max}

CallPciRanges ==
    {PciAddrRange([range_type |-> ty, prefetchable |-> pf], bus, cpu, sz) :
         ty \in {"Io", "Memory32", "Memory64"}, pf \in BOOLEAN,
         bus \in CallBusAddrs, cpu \in {Size32M}, sz \in {U64(1)}}
    \cup {PciAddrRange(Memory64, bus, bus, sz) : bus \in CallBusAddrs, sz \in CallSizes}
    \cup {PciAddrRange(Memory64, bus, U64(1), sz) : bus \in CallBusAddrs, sz \in CallSizes}

\* Expected interrupt-map entries for idx, with one cell changed, and unchanged
CallIrqMaps ==
    {<<ChangeCell(ExpectedIrqMap(idx, ph), i, d), idx>> :
         idx \in 0..MaxMapIdx, ph \in {7}, i \in 1..IRQ_MAP_CELLS, d \in {1, 2048}}
    \cup {<<ExpectedIrqMap(idx, ph), idx>> : idx \in 0..MaxMapIdx, ph \in {0, 7}}
    \cup {<<ExpectedIrqMap(idx + 1, 7), idx>> : idx \in 0..MaxMapIdx}

\* What SwiotlbInfo::new_from_fdt builds: an address and a size read from reg and no
\* alignment, or no address and the size and the alignment read from their properties
CallSwiotlbInfos ==
    {SwiotlbInfo(Some(a), sz, None) : a \in PoolAddrs, sz \in PoolSizes}
    \cup {SwiotlbInfo(None, sz, Some(al)) :
              sz \in PoolSizes, al \in {U64Zero, U64(1), U64(SIZE_4KB)}}

\* Trees of 0..MaxCallCpus live nodes, compatible with "arm,arm-v8" or not, below the
\* root or one below the other (in document order a node is at most one level deeper than
\* the node before it), and counts up to one more
CallCpuNodes ==
    {nodes \in UNION {[1..n -> [depth : 1..MaxCallCpus, compatible : BOOLEAN, live : {TRUE}]] :
                          n \in 0..MaxCallCpus} :
        /\ Len(nodes) > 0 => nodes[1].depth = 1
        /\ \A k \in 2..Len(nodes) : nodes[k].depth <= nodes[k - 1].depth + 1}
CallPatchNumCpus ==
    {<<[Template EXCEPT !.cpus = nodes], U64(n)>> :
         nodes \in CallCpuNodes, n \in 0..(MaxCallCpus + 1)}

\* The template as copy_from_slice and unpack leave it in a buffer that is `free` bytes
\* longer than the template
UnpackedTemplate(free) ==
    [Template EXCEPT !.unpacked = TRUE, !.buffer_len = Template.buffer_len + free]

\* Templates whose /memory reg is absent or holds 0, 1 or 2 entries, in a buffer as long
\* as the template and in one twice as long, with the DeviceTreeInfo of the accepted tree
\* and each memory range
CallMemoryRegs ==
    {None, Some(<<>>), Some(<<Reg(U64Zero, U64Zero)>>),
     Some(<<Reg(U64Zero, U64Zero), Reg(U64Zero, U64Zero)>>)}
CallPatchDeviceTree ==
    {<<[UnpackedTemplate(free) EXCEPT
            !.memory = Some([device_type |-> Some("memory"), reg |-> r])],
       [Val(parse_device_tree(BaseTree, None)) EXCEPT !.memory_range = m]>> :
         r \in CallMemoryRegs, m \in CallMemoryRanges, free \in {0, Template.buffer_len}}
    \* the template as it is, packed
    \cup {<<Template, Val(parse_device_tree(BaseTree, None))>>}
    \* the bootargs in buffers one byte too short for them and just long enough
    \cup {<<UnpackedTemplate(free), Val(parse_device_tree(BaseTree, None))>> :
              free \in {32, 33}}
    \* an initrd range and no bootargs in buffers that have room for none, one or both
    \* of the initrd properties
    \cup {<<UnpackedTemplate(free),
            [Val(parse_device_tree(BaseTree, None)) EXCEPT
                 !.initrd_range = Some(Range(U64(SIZE_4KB), U64(2 * SIZE_4KB))),
                 !.bootargs = None]>> : free \in {0, 34, 35, 67, 68}}
    \* a vendor public key, no bootargs and as many interrupts as the template has, so
    \* that patch_pci_info trims nothing, in buffers that have room for nothing, for the
    \* node added without its key, and for both; and with the interrupts of the accepted
    \* tree, whose trimming makes room
    \cup {<<UnpackedTemplate(free),
            [Val(parse_device_tree(BaseTree, None)) EXCEPT
                 !.bootargs = None, !.vendor_public_key = Some("key A"),
                 !.pci_info = PciInfo(BaseRanges, [i \in 1..MAX_IRQS |-> EXPECTED],
                                      [i \in 1..MAX_IRQS |-> ExpectedIrqMap(i - 1, 7)])]>> :
              free \in {0, 15, 16, 53, 54}}
    \cup {<<UnpackedTemplate(0),
            [Val(parse_device_tree(BaseTree, None)) EXCEPT
                 !.bootargs = None, !.vendor_public_key = Some("key A")]>>}
    \* infos that parse_device_tree does not build, on which a statement panics
    \cup {<<UnpackedTemplate(Template.buffer_len),
            [Val(parse_device_tree(BaseTree, None)) EXCEPT !.initrd_range = Some(r)]>> :
              r \in {Range(U64(SIZE_4KB), U64(2 * SIZE_4KB)),
                     Range(U64HiLo(1, 0), U64HiLo(1, SIZE_4KB))}}
    \cup {<<[UnpackedTemplate(Template.buffer_len) EXCEPT
                 !.gic = Some([reg |-> Some(<<Reg(U64(131071), U64(65536)),
                                              Reg(U64Zero, U64(131072))>>)])],
            Val(parse_device_tree(BaseTree, None))>>}

\* patch_initrd_range on the template: ends within 32 bits and beyond
CallPatchInitrdRange ==
    {<<t, Range(r[1], r[2])>> :
         t \in {UnpackedTemplate(free) : free \in {0, 34, 35, 67, 68}}
                \cup {Template, [UnpackedTemplate(68) EXCEPT !.chosen = None],
                      [UnpackedTemplate(0) EXCEPT !.chosen = Some(
                           [initrd_start |-> Some(PropU32(1)), initrd_end |-> Some(PropU32(2)),
                            bootargs |-> None])],
                      [UnpackedTemplate(32) EXCEPT !.chosen = Some(
                           [initrd_start |-> Some(PropU32(1)), initrd_end |-> None,
                            bootargs |-> None])]},
         r \in {U64Zero, U64(SIZE_4KB), <<0, 0, 32767, Limb - 1>>, U64HiLo(1, 0),
                <<1, 0, 0, 0>>}
                \X {U64(7), U64(2 * SIZE_4KB), <<0, 0, 32767, Limb - 1>>,
                    U64HiLo(1, 5), U64HiLo(1, SIZE_4KB)}}

\* patch_gic: the template, a first range lower than the patched size, one and three
\* ranges, no reg, no node
CallPatchGic ==
    {<<[Template EXCEPT !.unpacked = TRUE, !.gic = g], n>> :
         g \in {Template.gic, None, Some([reg |-> None]),
                Some([reg |-> Some(<<Reg(U64(131071), U64(65536)),
                                     Reg(U64Zero, U64(131072))>>)]),
                Some([reg |-> Some(<<Reg(U64(1073676288), U64(65536))>>)]),
                Some([reg |-> Some(<<Reg(U64(1073676288), U64(65536)),
                                     Reg(U64(1073545216), U64(131072)),
                                     Reg(U64Zero, U64Zero)>>)])},
         n \in {U64Zero, U64(1), U64(2), U64(TemplateNumCpus), <<0, 32768, 0, 0>>}}

\* patch_timer: the template, interrupts of 0, 3, 11 and 13 cells, no property, no node
CallPatchTimer ==
    {<<[Template EXCEPT !.unpacked = TRUE, !.timer = i], n>> :
         i \in {Template.timer, None, Some([interrupts |-> None])}
                \cup {Some([interrupts |-> Some(SubSeq(
                                <<1, 13, 8, 1, 14, 8, 1, 11, 8, 1, 10, 8, 1>>, 1, k))]) :
                          k \in {0, 3, 11, 13}},
         n \in {U64Zero, U64(1), U64(8), U64(31), U64(32), U64(33), U64(40), U64(65536),
                U64HiLo(1, 0), U64HiLo(1, 3)}}

\* The trees given to modify_for_next_stage, wider than what sanitize_device_tree leaves
Zeros(k) == [i \in 1..k |-> 0]
NextStageTree ==
    [valid |-> TRUE,
     reserved_memory |-> Some([dice |-> Some([reg |-> Some(Zeros(16))])]),
     later_dice |-> None,
     chosen |-> Some([strict_boot |-> None, new_instance |-> None,
                      kaslr_seed |-> Some(Zeros(8)), bootargs |-> None]),
     common |-> None,
     strings |-> {},
     unpacked |-> FALSE,
     used |-> 2048,
     buffer_len |-> 4096]

\* The names of the properties the tree has, which its strings block holds
PresentNames(t) ==
    (IF IsSome(t.chosen)
     THEN {n \in {"avf,strict-boot", "avf,new-instance"} :
               IsSome(Unwrap(t.chosen)[FlagField(n)])}
          \cup (IF IsSome(Unwrap(t.chosen).bootargs) THEN {"bootargs"} ELSE {})
     ELSE {})
    \cup (IF IsSome(t.common)
          THEN {n \in {"ramdump", "log"} : IsSome(Unwrap(t.common)[n])}
          ELSE {})

\* The tree with a strings block that holds the names of its properties and, beside
\* them, the given names (of properties of other nodes, or of properties deleted)
WithNames(t, names) == [t EXCEPT !.strings = PresentNames(t) \cup names]

\* The arguments of the bootargs given to modify_for_next_stage, and the lists of at
\* most two of them, with the list of the example of the specification
NextStageArgs ==
    {<<"panic", "=", "-1">>, <<"panic", "=", "0">>, <<"panic">>,
     <<"console", "=", "ttyAMA0">>, <<"crashkernel", "=", "1M">>, <<"foo", "=", "bar">>}
NextStageArgLists ==
    {<<>>}
    \cup {<<a>> : a \in NextStageArgs}
    \cup {<<a, b>> : a, b \in NextStageArgs}
    \cup {<<<<"panic", "=", "-1">>, <<"console", "=", "ttyAMA0">>, <<"foo", "=", "bar">>>>}

\* The string of a list of arguments: one space between them
RECURSIVE JoinArgs(_)
JoinArgs(args) ==
    IF Len(args) = 0 THEN <<>>
    ELSE IF Len(args) = 1 THEN Head(args)
    ELSE Head(args) \o <<" ">> \o JoinArgs(Tail(args))

NextStageBootargs ==
    {None,
     Some([nul_terminated |-> FALSE, text |-> <<"panic", "=", "-1">>]),
     Some([nul_terminated |-> TRUE, text |-> <<"panic", "=", "-1", "<ff>">>])}
    \cup {Some([nul_terminated |-> TRUE, text |-> JoinArgs(l)]) : l \in NextStageArgLists}
NextStageCommons ==
    {None}
    \cup {Some([ramdump |-> r, log |-> l]) : r \in {None, Some(PropU32(1))},
                                             l \in {None, Some(PropU32(0)), Some(PropU32(1))}}
    \cup {Some([ramdump |-> Some(PropU32(2)), log |-> Some([len |-> 8, val |-> 1])])}
NextStageChosens ==
    {None}
    \cup {Some([strict_boot |-> s, new_instance |-> n, kaslr_seed |-> k,
                bootargs |-> Some([nul_terminated |-> TRUE, text |-> <<"panic", "=", "-1">>])]) :
            s \in {None, Some(<<>>)}, n \in {None, Some(<<1>>)},
            k \in {None, Some(Zeros(4)), Some(Zeros(8))}}
NextStageReservedMemories ==
    {None, Some([dice |-> None]), Some([dice |-> Some([reg |-> None])]),
     Some([dice |-> Some([reg |-> Some(Zeros(8))])])}

\* The trees whose bootargs and common policy vary
NextStageBootargsTrees ==
    {WithNames([NextStageTree EXCEPT
                    !.chosen = Some([Unwrap(NextStageTree.chosen) EXCEPT !.bootargs = b]),
                    !.common = c], {}) : b \in NextStageBootargs, c \in NextStageCommons}

\* The trees whose /chosen, /reserved-memory and open-dice nodes vary, and a tree without
\* the magic
NextStageStructureTrees ==
    {WithNames([NextStageTree EXCEPT !.chosen = c], {}) : c \in NextStageChosens}
    \cup {[NextStageTree EXCEPT !.reserved_memory = r, !.later_dice = d] :
              r \in NextStageReservedMemories, d \in {None, Some([reg |-> Some(Zeros(16))])}}
    \cup {[NextStageTree EXCEPT !.later_dice = Some([reg |-> Some(Zeros(16))])]}
    \cup {[NextStageTree EXCEPT !.valid = FALSE]}

\* The trees in buffers with little room: none, one byte less than and just what the
\* debug policy takes in a tree with /avf/guest/common (19, 20) and in one without (63,
\* 64), what avf,strict-boot takes (28) and both flags (57), and what the policy and
\* both flags take (77, 121); with strings blocks that hold the names to add and that do
\* not
NextStageNames == {"avf,strict-boot", "avf,new-instance", "ramdump", "log"}
NextStageTightTrees ==
    {WithNames([NextStageTree EXCEPT
                    !.chosen = Some([Unwrap(NextStageTree.chosen) EXCEPT !.bootargs = b]),
                    !.common = c,
                    !.buffer_len = NextStageTree.used + free], names) :
         b \in {None, Some([nul_terminated |-> TRUE,
                            text |-> <<"panic", "=", "-1", " ", "console", "=", "ttyAMA0">>])},
         c \in {None, Some([ramdump |-> None, log |-> None])},
         free \in {0, 19, 20, 28, 57, 63, 64, 77, 121},
         names \in {{}, NextStageNames}}

NextStageTrees == NextStageBootargsTrees \cup NextStageStructureTrees \cup NextStageTightTrees

\* The debug policies: absent, corrupted, refused by fdt_overlay_apply, and two that fit
\* the tree
DebugPolicies ==
    {None,
     Some([check_full |-> FALSE, applies |-> TRUE,
           common |-> [ramdump |-> None, log |-> Some(PropU32(1))]]),
     Some([check_full |-> TRUE, applies |-> FALSE,
           common |-> [ramdump |-> Some(PropU32(1)), log |-> Some(PropU32(1))]]),
     Some([check_full |-> TRUE, applies |-> TRUE,
           common |-> [ramdump |-> None, log |-> Some(PropU32(1))]]),
     Some([check_full |-> TRUE, applies |-> TRUE,
           common |-> [ramdump |-> Some(PropU32(1)), log |-> Some(PropU32(0))]])}
CallKaslrSeed == <<4660, 22136, 39612, 57072>>
CallBcc == [addr |-> <<0, 0, 32767, 61440>>, size |-> <<0, 0, 0, 4096>>]
CallModifyForNextStage ==
    {<<t, CallBcc, FALSE, FALSE, p, d, CallKaslrSeed>> :
         t \in NextStageBootargsTrees, p \in DebugPolicies, d \in BOOLEAN}
    \cup {<<t, CallBcc, n, s, p, d, CallKaslrSeed>> :
              t \in NextStageStructureTrees \cup NextStageTightTrees,
              n \in BOOLEAN, s \in BOOLEAN, p \in DebugPolicies, d \in BOOLEAN}

\* The buffers of copy_from_slice: a header whose totalsize is at most the capacity, then
\* bytes that are not zero; and the slices copied into them
FdtMagic == <<208, 13, 254, 237>>
CallBuffers ==
    {FdtMagic \o <<0, 0, 0, cs[2]>> \o [i \in 1..(cs[1] - 8) |-> 100 + i] :
         cs \in {x \in (8..MaxCapacity) \X (8..MaxCapacity) : x[1] >= x[2]}}
CallNewFdts ==
    {SubSeq(FdtMagic \o <<0, 0, 0, n>> \o [i \in 1..MaxNewLen |-> 200 + i], 1, n) :
         n \in 0..MaxNewLen}
CallCopyFromSlice == CallBuffers \X CallNewFdts

\* The blobs given to from_slice and from_mut_slice, and the buffer lengths given to
\* create_empty_tree
Token(tag, len) == [tag |-> tag, len |-> len]
CallStructures ==
    {<<Token("BEGIN_NODE", 0), Token("PROP", 4), Token("BEGIN_NODE", 3), Token("PROP", 8),
       Token("END_NODE", 0), Token("END_NODE", 0), Token("END", 0)>>,
     <<Token("BEGIN_NODE", 0), Token("END_NODE", 0), Token("END", 0)>>,
     <<Token("BEGIN_NODE", 0), Token("PROP", 4), Token("END", 0)>>,
     <<Token("BEGIN_NODE", 0), Token("PROP", 5), Token("END_NODE", 0)>>,
     <<Token("BEGIN_NODE", 0), Token("END_NODE", 0), Token("END_NODE", 0), Token("PROP", 4),
       Token("END", 0)>>,
     <<Token("PROP", 4), Token("END", 0)>>,
     <<>>}
CallBlobs ==
    {[capacity |-> FDT_V17_SIZE + EmptyRsvmapSize + sizes[1],
      magic |-> magic,
      totalsize |-> FDT_V17_SIZE + EmptyRsvmapSize + sizes[2],
      off_dt_struct |-> off,
      tokens |-> tokens] :
         sizes \in {<<64, 64>>, <<128, 64>>, <<64, 128>>, <<64, 32>>, <<64, 12>>, <<32, 32>>},
         magic \in BOOLEAN,
         off \in {FDT_V17_SIZE + EmptyRsvmapSize, 8},
         tokens \in CallStructures}
    \cup {[capacity |-> c, magic |-> TRUE, totalsize |-> c, off_dt_struct |-> c,
           tokens |-> <<>>] : c \in {0, 39}}
CallCapacities == {0, 39, 40, 71, 72, 73, 128}

\* The valid trees given to Fdt::unpack and Fdt::pack.  The three blocks lie behind the
\* header in any order, next to each other or 8 bytes apart, and the total size ends
\* with the last; the strings block holds 0 or 12 bytes; the buffer is as long as the
\* tree, 8 bytes longer, longer by the packed tree, or longer still.
BlockOrders ==
    {<<"rsvmap", "struct", "strings">>, <<"rsvmap", "strings", "struct">>,
     <<"struct", "rsvmap", "strings">>, <<"struct", "strings", "rsvmap">>,
     <<"strings", "rsvmap", "struct">>, <<"strings", "struct", "rsvmap">>}
Place(order, b) == CHOOSE k \in 1..3 : order[k] = b
LaidOut(order, gap, tokens, size_dt_strings, room) ==
    LET size == [b \in Blocks |->
                    CASE b = "rsvmap" -> EmptyRsvmapSize
                      [] b = "struct" ->
                             StructSize([off_dt_struct |-> 0, tokens |-> tokens])
                      [] OTHER -> size_dt_strings]
        at == [b \in Blocks |->
                  FDT_V17_SIZE
                  + (IF Place(order, b) > 1 THEN size[order[1]] + gap ELSE 0)
                  + (IF Place(order, b) > 2 THEN size[order[2]] + gap ELSE 0)]
        end == at[order[3]] + size[order[3]]
        packed == FDT_V17_SIZE + size["rsvmap"] + size["struct"] + size["strings"]
    IN  [capacity |-> end + (CASE room = "none" -> 0
                               [] room = "some" -> 8
                               [] room = "packed" -> packed
                               [] OTHER -> packed + 64),
         magic |-> TRUE,
         totalsize |-> end,
         off_mem_rsvmap |-> at["rsvmap"],
         off_dt_struct |-> at["struct"],
         off_dt_strings |-> at["strings"],
         size_dt_strings |-> size_dt_strings,
         tokens |-> tokens,
         mem |-> [b \in Blocks |-> [at |-> at[b], intact |-> TRUE]]]
CallValidBlobs ==
    {LaidOut(order, gap, tokens, size_dt_strings, room) :
         order \in BlockOrders, gap \in {0, 8},
         tokens \in {x \in CallStructures :
                         IsOk(check_full([capacity |-> 256, magic |-> TRUE, totalsize |-> 256,
                                          off_dt_struct |-> FDT_V17_SIZE, tokens |-> x]))},
         size_dt_strings \in {0, 12},
         room \in {"none", "some", "packed", "more"}}

\* The trees of at most MaxNodes nodes below the root, some of them already tombstoned:
\* in document order a node is at most one level deeper than the node before it, and the
\* subnodes of a tombstoned node are tombstoned
CallNodeTrees ==
    {nodes \in UNION {[1..n -> [depth : 1..MaxNodes, compatible : BOOLEAN, live : BOOLEAN]] :
                          n \in 1..MaxNodes} :
        /\ nodes[1].depth = 1
        /\ \A k \in 2..Len(nodes) : nodes[k].depth <= nodes[k - 1].depth + 1
        /\ \A i \in 1..Len(nodes) : \A j \in 1..Len(nodes) :
               (~nodes[i].live /\ InSubtree(nodes, i, j)) => ~nodes[j].live}

\* delete_and_next_compatible is called on a live node
CallDeleteAndNext ==
    {c \in UNION {{<<nodes, i>> : i \in 1..Len(nodes)} : nodes \in CallNodeTrees} :
        c[1][c[2]].live}

\* The inodes the kernel asks for, and what reading a file from the archive gives
Inodes == {1, 2, 3}
ZipFiles == {Ok("Uncompressed"), Ok("Compressed"), Err("EIO")}

\* ZipFuse::new: both tables empty
InitZipFuse ==
    /\ template = ReferenceTemplate
    /\ pc = "serving"
    /\ open_files = <<>>
    /\ open_dirs = <<>>
    /\ history = NoHistory
    /\ overflow_checks = TRUE
    /\ call = NoCall
    /\ ret = None
    /\ input = Template
    /\ fdt = Template
    /\ vm_dtbo = None
    /\ info = EmptyInfo
    /\ result = None
    /\ failed_at = None

\* The descriptors of a VBMeta image, and the images of at most MaxDescriptors of them
AvbDescriptors ==
    {[tag |-> "hash", valid |-> v, partition_name |-> n, key |-> ""] :
         v \in BOOLEAN, n \in {"boot", "initrd_normal", "unknown"}}
    \cup {[tag |-> t, valid |-> TRUE, partition_name |-> "", key |-> k] :
              t \in {"property", "other"}, k \in {"k1", "k2"}}
CallVbmetas ==
    {[descriptors |-> ds, malformed_at |-> m] :
         ds \in UNION {[1..n -> AvbDescriptors] : n \in 0..MaxDescriptors},
         m \in {0, 1, MaxDescriptors}}

\* The trees whose debug policy fails to apply, each in its buffer, and what the failed
\* merge leaves after the header
CallRestoreBackup == CallBuffers \X {0, 150}

\* patch_swiotlb_info on the template, with every SwiotlbInfo that validate_swiotlb_info
\* accepts for some memory range
CallPatchSwiotlbInfo ==
    {<<[Template EXCEPT !.unpacked = TRUE], i>> :
         i \in {x \in CallSwiotlbInfos :
                    \E m \in CallMemoryRanges : IsOk(validate_swiotlb_info(x, m))}}

Calls ==
    {[fn |-> "validate_num_cpus", args |-> <<n>>] : n \in CpuCounts}
    \cup {[fn |-> "patch_device_tree", args |-> a] : a \in CallPatchDeviceTree}
    \cup {[fn |-> "patch_initrd_range", args |-> a] : a \in CallPatchInitrdRange}
    \cup {[fn |-> "patch_gic", args |-> a] : a \in CallPatchGic}
    \cup {[fn |-> "patch_timer", args |-> a] : a \in CallPatchTimer}
    \cup {[fn |-> "modify_for_next_stage", args |-> a] : a \in CallModifyForNextStage}
    \cup {[fn |-> "copy_from_slice", args |-> a] : a \in CallCopyFromSlice}
    \cup {[fn |-> f, args |-> <<b>>] : f \in {"from_slice", "from_mut_slice"}, b \in CallBlobs}
    \cup {[fn |-> "create_empty_tree", args |-> <<c>>] : c \in CallCapacities}
    \cup {[fn |-> "patch_dice_node", args |-> <<t, CallBcc.addr, CallBcc.size>>] :
              t \in NextStageTrees}
    \cup {[fn |-> "delete_and_next_compatible", args |-> a] : a \in CallDeleteAndNext}
    \cup {[fn |-> "from_vbmeta", args |-> <<v>>] : v \in CallVbmetas}
    \cup {[fn |-> "restore_backup", args |-> a] : a \in CallRestoreBackup}
    \cup {[fn |-> "patch_swiotlb_info", args |-> a] : a \in CallPatchSwiotlbInfo}
    \cup {[fn |-> f, args |-> <<b>>] : f \in {"unpack", "pack"}, b \in CallValidBlobs}
    \cup {[fn |-> "patch_num_cpus", args |-> a] : a \in CallPatchNumCpus}
    \cup {[fn |-> "validate_pci_addr_range", args |-> <<r, m>>] :
              r \in CallPciRanges, m \in CallMemoryRanges}
    \cup {[fn |-> "validate_pci_irq_map", args |-> a] : a \in CallIrqMaps}
    \cup {[fn |-> "validate_swiotlb_info", args |-> <<i, m>>] :
              i \in CallSwiotlbInfos, m \in CallMemoryRanges}

\* The calls whose arguments or outcome hang on the build: patch_gic and patch_timer
\* compute with overflow_checks on the nodes of the template, patch_device_tree calls
\* them, and validate_num_cpus is called with the number of CPU nodes of the template.
\* The other calls are made on the reference template in a build that checks overflow.
BuildDependent == {"patch_device_tree", "patch_gic", "patch_timer", "validate_num_cpus"}

InitCall ==
    /\ template \in Templates
    /\ pc = "call"
    /\ call \in Calls
    /\ ret = None
    /\ input = Template
    /\ fdt = Template
    /\ vm_dtbo = None
    /\ info = EmptyInfo
    /\ result = None
    /\ failed_at = None
    /\ open_files = <<>>
    /\ open_dirs = <<>>
    /\ history = NoHistory
    /\ overflow_checks \in BOOLEAN
    /\ call.fn \in BuildDependent \/ (template = ReferenceTemplate /\ overflow_checks)

Return(fn, r) ==
    /\ pc = "call"
    /\ call.fn = fn
    /\ ret' = Some(r)
    /\ pc' = "returned"
    /\ UNCHANGED <<input, fdt, vm_dtbo, info, result, failed_at, call,
                   open_files, open_dirs, history, overflow_checks, template>>

CallValidateNumCpus == Return("validate_num_cpus", validate_num_cpus(call.args[1]))
CallValidatePciAddrRange ==
    Return("validate_pci_addr_range", validate_pci_addr_range(call.args[1], call.args[2]))
CallValidatePciIrqMap ==
    Return("validate_pci_irq_map", validate_pci_irq_map(call.args[1], call.args[2]))
CallValidateSwiotlbInfo ==
    Return("validate_swiotlb_info", validate_swiotlb_info(call.args[1], call.args[2]))
PatchNumCpusCall == Return("patch_num_cpus", patch_num_cpus(call.args[1], call.args[2]))
PatchDeviceTreeCall ==
    Return("patch_device_tree", patch_device_tree(call.args[1], call.args[2]))
ModifyForNextStageCall ==
    Return("modify_for_next_stage",
           modify_for_next_stage(call.args[1], call.args[2], call.args[3], call.args[4],
                                 call.args[5], call.args[6], call.args[7]))
CopyFromSliceCall ==
    Return("copy_from_slice", copy_from_slice_bytes(call.args[1], call.args[2]))
FromSliceCall == Return("from_slice", from_slice(call.args[1]))
FromMutSliceCall == Return("from_mut_slice", from_mut_slice(call.args[1]))
CreateEmptyTreeCall == Return("create_empty_tree", create_empty_tree(call.args[1]))
PatchDiceNodeCall ==
    Return("patch_dice_node", patch_dice_node(call.args[1], call.args[2], call.args[3]))
DeleteAndNextCompatibleCall ==
    Return("delete_and_next_compatible",
           delete_and_next_compatible(call.args[1], call.args[2]))
\* A request served: the reply, and the count of the handler's successes for the inode
Served(fn, inode, reply) ==
    /\ history[fn][inode] < (IF fn \in {"open", "opendir"} THEN MaxOpens ELSE MaxReleases)
    /\ call' = [fn |-> fn, args |-> <<inode>>]
    /\ ret' = Some(reply)
    /\ history' = IF IsOk(reply) THEN [history EXCEPT ![fn][inode] = @ + 1] ELSE history
    /\ UNCHANGED <<pc, input, fdt, vm_dtbo, info, result, failed_at, overflow_checks, template>>

Open ==
    /\ pc = "serving"
    /\ \E inode \in Inodes, zip_file \in ZipFiles :
           /\ Served("open", inode, open(open_files, inode, zip_file).result)
           /\ open_files' = open(open_files, inode, zip_file).table
    /\ UNCHANGED open_dirs

Release ==
    /\ pc = "serving"
    /\ \E inode \in Inodes :
           /\ Served("release", inode, release(open_files, inode).result)
           /\ open_files' = release(open_files, inode).table
    /\ UNCHANGED open_dirs

Opendir ==
    /\ pc = "serving"
    /\ \E inode \in Inodes :
           /\ Served("opendir", inode, opendir(open_dirs, inode).result)
           /\ open_dirs' = opendir(open_dirs, inode).table
    /\ UNCHANGED open_files

Releasedir ==
    /\ pc = "serving"
    /\ \E inode \in Inodes :
           /\ Served("releasedir", inode, releasedir(open_dirs, inode).result)
           /\ open_dirs' = releasedir(open_dirs, inode).table
    /\ UNCHANGED open_files
FromVbmetaCall == Return("from_vbmeta", from_vbmeta(call.args[1]))
\* apply_debug_policy, after apply_overlay has failed: fdt.copy_from_slice(backup_fdt)
RestoreBackupCall ==
    Return("restore_backup", restore_backup(call.args[1], call.args[2]))
PatchSwiotlbInfoCall ==
    Return("patch_swiotlb_info", patch_swiotlb_info(call.args[1], call.args[2]))
PatchInitrdRangeCall ==
    Return("patch_initrd_range", patch_initrd_range(call.args[1], call.args[2]))
PatchGicCall == Return("patch_gic", patch_gic(call.args[1], call.args[2]))
PatchTimerCall == Return("patch_timer", patch_timer(call.args[1], call.args[2]))
UnpackCall == Return("unpack", Fdt_unpack(call.args[1]))
PackCall == Return("pack", Fdt_pack(call.args[1]))

Init == InitSanitize \/ InitCall \/ InitZipFuse

Next ==
    \/ FromMutSlice
    \/ VmDtboFromMutSlice
    \/ ReadKernelRange
    \/ ReadInitrdRange
    \/ ReadAndValidateMemoryRange
    \/ ReadBootargs
    \/ ReadNumCpus
    \/ ValidateNumCpus
    \/ ReadPciInfo
    \/ ValidatePciInfo
    \/ ReadSerialInfo
    \/ ReadSwiotlbInfo
    \/ ValidateSwiotlbInfo
    \/ ParseDeviceAssignment
    \/ ReadVendorPublicKey
    \/ CopyFromSlice
    \/ Unpack
    \/ ApplyOverlay
    \/ PatchDeviceTree
    \/ Pack
    \/ CallValidateNumCpus
    \/ CallValidatePciAddrRange
    \/ CallValidatePciIrqMap
    \/ CallValidateSwiotlbInfo
    \/ PatchNumCpusCall
    \/ PatchDeviceTreeCall
    \/ ModifyForNextStageCall
    \/ CopyFromSliceCall
    \/ FromSliceCall
    \/ FromMutSliceCall
    \/ CreateEmptyTreeCall
    \/ PatchSwiotlbInfoCall
    \/ PatchInitrdRangeCall
    \/ PatchGicCall
    \/ PatchTimerCall
    \/ RestoreBackupCall
    \/ FromVbmetaCall
    \/ Open
    \/ Release
    \/ Opendir
    \/ Releasedir
    \/ DeleteAndNextCompatibleCall
    \/ PatchDiceNodeCall
    \/ UnpackCall
    \/ PackCall

Spec == Init /\ [][Next]_vars

\* The run in progress ends as the function says
SanitizeStepsAgree ==
    /\ pc = "failed" => /\ sanitize_device_tree(input, vm_dtbo).result = InvalidFdt
                        /\ fdt = sanitize_device_tree(input, vm_dtbo).fdt
    /\ pc = "done" => /\ IsOk(sanitize_device_tree(input, vm_dtbo).result)
                      /\ result = Some(sanitize_device_tree(input, vm_dtbo).result)
                      /\ fdt = sanitize_device_tree(input, vm_dtbo).fdt

(***************************************************************************)
(* Where the run in progress stands                                        *)
(***************************************************************************)
StepIndex(step) ==
    CHOOSE k \in 1..Len(sanitize_device_tree_steps) : sanitize_device_tree_steps[k] = step

InSanitize == pc \in {"failed", "panicked"} \/ \E k \in 1..Len(sanitize_device_tree_steps) :
                                   sanitize_device_tree_steps[k] = pc

\* The step ran and returned an error
FailedAt(step) == pc = "failed" /\ Unwrap(failed_at).step = step

\* The step ran and returned Ok
Passed(step) ==
    /\ InSanitize
    /\ StepIndex(IF pc \in {"failed", "panicked"} THEN Unwrap(failed_at).step ELSE pc) > StepIndex(step)

LoadSteps == {"from_mut_slice", "vm_dtbo_from_mut_slice"}

(***************************************************************************)
(* C1                                                                      *)
(***************************************************************************)
\* C1: the buffer is overwritten with the template only after every read and validate
\* step of parse_device_tree has succeeded; when one of them (or the structural check of
\* either blob) fails, sanitize_device_tree returns InvalidFdt and the buffer still holds
\* the input, and while these steps run the buffer holds the input.
C1_BufferKeptUntilParsed ==
    /\ pc \in LoadSteps \cup ParseSteps => fdt = input
    /\ (pc = "failed" /\ Unwrap(failed_at).step \in LoadSteps \cup ParseSteps)
           => (result = Some(InvalidFdt) /\ fdt = input)
    /\ (InSanitize /\ fdt # input) => \A step \in ParseSteps : Passed(step)

\* A validate step has failed on a tree that is not the template
C1_Witness ==
    /\ FailedAt("validate_pci_info")
    /\ input # Template
    /\ fdt = input
    /\ result = Some(InvalidFdt)

(***************************************************************************)
(* C2                                                                      *)
(***************************************************************************)
\* The facts parse_device_tree validates, and those it reads and hands on as they are
ValidatedFacts(di) ==
    <<di.memory_range, di.num_cpus, di.pci_info, di.serial_info, di.swiotlb_info>>
CopiedFacts(di) == <<di.initrd_range, di.bootargs, di.vendor_public_key, di.device_assignment>>

\* The tree agrees with the input of this run on the validated facts, and on the copied
\* facts
AgreesOnValidatedFacts(t) ==
    /\ read_num_cpus_from(t) = Ok(info.num_cpus)
    /\ read_and_validate_memory_range(t) = Ok(info.memory_range)
    /\ read_serial_info_from(t) = Ok(info.serial_info)
    /\ new_from_fdt(t) = Ok(info.swiotlb_info)
    /\ read_pci_info_from(t) = Ok(info.pci_info)
AgreesOnCopiedFacts(t) ==
    /\ read_initrd_range_from(t) = Ok(info.initrd_range)
    /\ read_bootargs_from(t) = Ok(info.bootargs)
    /\ read_vendor_public_key_from(t) = Ok(info.vendor_public_key)
    /\ device_assignment_parse(t, vm_dtbo) = Ok(info.device_assignment)

\* The accepted inputs that agree with the input of this run on the validated facts,
\* and those that agree on the copied facts too
TwinsOnValidatedFacts ==
    {t \in InputTrees :
         AgreesOnValidatedFacts(t) /\ IsOk(sanitize_device_tree(t, vm_dtbo).result)}
TwinsOnAllFacts ==
    {t \in InputTrees :
         /\ AgreesOnValidatedFacts(t)
         /\ AgreesOnCopiedFacts(t)
         /\ IsOk(sanitize_device_tree(t, vm_dtbo).result)}

\* The tree a buffer holds: all of it but the length of the buffer
TreeIn(buffer) == [f \in DOMAIN buffer \ {"buffer_len"} |-> buffer[f]]

\* What a run on another input has returned and left in the buffer: if it was accepted,
\* the tree it left is the tree this run has left
SameTreeIfAccepted(sanitized) ==
    IsOk(sanitized.result) => TreeIn(sanitized.fdt) = TreeIn(fdt)

\* C2 as stated: two accepted inputs (with the same VM DTBO) that agree on the validated
\* facts leave the same bytes in the buffer, whatever bootargs, vendor public key and
\* initrd range they carry.
C2_Original ==
    pc = "done" =>
        \A t \in InputTrees :
            AgreesOnValidatedFacts(t) => SameTreeIfAccepted(sanitize_device_tree(t, vm_dtbo))

\* C2: two accepted inputs (with the same VM DTBO) that agree on the validated facts, on
\* the initrd range, the bootargs and the vendor public key, and on what they say of the
\* devices assigned with the VM DTBO, leave the same tree in the buffer, whatever else
\* they contain and however long their buffers are.
C2_OutputDependsOnInfoOnly ==
    pc = "done" =>
        \A t \in InputTrees :
            (AgreesOnValidatedFacts(t) /\ AgreesOnCopiedFacts(t))
                => SameTreeIfAccepted(sanitize_device_tree(t, vm_dtbo))

\* The run has ended on an input that came with a VM DTBO and whose assigned devices were
\* written into the output; it has a twin that differs from it in the nodes no fact is
\* read from, and inputs that agree with it on the validated facts differ from it in the
\* devices and in the bootargs
C2_Witness ==
    /\ pc = "done"
    /\ IsSome(vm_dtbo)
    /\ IsSome(info.device_assignment)
    /\ fdt.overlay = Some(input.assigned)
    /\ \E t \in TwinsOnAllFacts : t.other # input.other
    /\ \E t \in TwinsOnValidatedFacts : t.assigned \notin {input.assigned, "none"}

(***************************************************************************)
(* C3                                                                      *)
(***************************************************************************)
\* The input has a /memory node of device_type "memory" with at least one reg entry
HasFirstMemoryRange(t) ==
    /\ IsSome(t.memory)
    /\ Unwrap(t.memory).device_type = Some("memory")
    /\ IsSome(Unwrap(t.memory).reg)
    /\ Len(Unwrap(Unwrap(t.memory).reg)) > 0

FirstMemoryRange(t) == Unwrap(Unwrap(t.memory).reg)[1]

\* A multiple of the 4 KiB page size: the low 12 bits are zero
PageMultiple(a) == a[4] % 4096 = 0

\* C3: read_and_validate_memory_range succeeds exactly when the first range of /memory
\* starts at MEM_START and its size is a non-zero multiple of the page size, and then it
\* returns that range; whether a second range follows, and what it holds, changes neither.
C3_FirstRangeDecides ==
    LET first == FirstMemoryRange(input)
        accepted == /\ first.addr = MEM_START
                    /\ first.size # U64Zero
                    /\ PageMultiple(first.size)
    IN  /\ Passed("read_and_validate_memory_range") =>
               /\ HasFirstMemoryRange(input)
               /\ accepted
               /\ info.memory_range = Range(first.addr, AddWithCarry(first.addr, first.size).sum)
        /\ (FailedAt("read_and_validate_memory_range") /\ HasFirstMemoryRange(input))
               => ~accepted

\* The call has succeeded on a tree with a second memory range
C3_Witness ==
    /\ Passed("read_and_validate_memory_range")
    /\ Len(Unwrap(Unwrap(input.memory).reg)) = 2
    /\ info.memory_range.start = MEM_START

(***************************************************************************)
(* C4                                                                      *)
(***************************************************************************)
\* 32 * 4 KiB * n = 2^17 * n does not fit 64 bits: n >= 2^47
GicSizeOverflows(n) == U64Le(<<0, 32768, 0, 0>>, n)

\* C4: validate_num_cpus returns InvalidCpuCount(n) exactly when n is zero or the
\* per-CPU GIC redistributor size times n overflows usize, and Ok otherwise; a run of
\* sanitize_device_tree on a tree with a rejected number of CPU nodes fails.
C4_RejectsZeroAndOverflow ==
    /\ (pc = "returned" /\ call.fn = "validate_num_cpus") =>
           LET n == call.args[1]
               r == Unwrap(ret)
           IN  IF n = U64Zero \/ GicSizeOverflows(n)
               THEN IsErr(r) /\ Val(r) = <<"InvalidCpuCount", n>>
               ELSE IsOk(r)
    /\ Passed("validate_num_cpus") => NumCompatible(input.cpus) # 0
    /\ FailedAt("validate_num_cpus") =>
           /\ NumCompatible(input.cpus) = 0
           /\ Unwrap(failed_at).error = "InvalidCpuCount"
           /\ result = Some(InvalidFdt)

\* The call has rejected the smallest count whose GIC size overflows
C4_Witness ==
    /\ pc = "returned"
    /\ call.fn = "validate_num_cpus"
    /\ call.args[1] = <<0, 32768, 0, 0>>
    /\ IsErr(Unwrap(ret))

(***************************************************************************)
(* C5                                                                      *)
(***************************************************************************)
\* The conditions of C5 on one range, with the bus range and memory as address sets
PciRangeAcceptable(range, memory_range) ==
    LET bus == range.addr[2]
        end == AddWithCarry(bus, range.size)
    IN  /\ range.addr[1].range_type = "Memory64"
        /\ ~range.addr[1].prefetchable
        /\ bus = range.parent_addr
        /\ end.carry = 0
        /\ U64Le(end.sum, <<0, 256, 0, 0>>)
        /\ ~(/\ U64Lt(bus, end.sum)
             /\ U64Lt(memory_range.start, memory_range.end)
             /\ U64Lt(bus, memory_range.end)
             /\ U64Lt(memory_range.start, end.sum))

\* C5: validate_pci_addr_range accepts a range exactly when it is 64-bit memory, not
\* prefetchable, its bus address equals its CPU address, bus address plus size neither
\* overflows nor exceeds MAX_VIRT_ADDR (2^40), and it shares no address with the memory
\* range; validate_pci_info fails when either of the two ranges is not accepted.
C5_PciRangeAcceptedIff ==
    /\ (pc = "returned" /\ call.fn = "validate_pci_addr_range") =>
           IF PciRangeAcceptable(call.args[1], call.args[2])
           THEN IsOk(Unwrap(ret))
           ELSE ret = Some(InvalidFdt)
    /\ Passed("validate_pci_info") =>
           \A i \in 1..2 : PciRangeAcceptable(info.pci_info.ranges[i], info.memory_range)

\* The call has accepted a range that ends exactly at MAX_VIRT_ADDR
C5_Witness ==
    /\ pc = "returned"
    /\ call.fn = "validate_pci_addr_range"
    /\ AddWithCarry(call.args[1].addr[2], call.args[1].size).sum = MAX_VIRT_ADDR
    /\ IsOk(Unwrap(ret))

(***************************************************************************)
(* C6                                                                      *)
(***************************************************************************)
HasPciRanges(t) == IsSome(t.pci) /\ IsSome(Unwrap(t.pci).ranges)
PciRanges(t) == Unwrap(Unwrap(t.pci).ranges)
PciMask(t) == Unwrap(t.pci).interrupt_map_mask
PciMap(t) == Unwrap(t.pci).interrupt_map

\* C6 as stated: a tree is accepted only when its ranges property holds exactly two
\* ranges.
C6_Original == pc = "done" => Len(PciRanges(input)) = 2

\* C6: read_pci_info_from takes the first two ranges of the ranges property and fails
\* when there are fewer than two; it reads no further range, so a tree with more than two
\* ranges is not rejected for them, whatever they hold.
C6_FirstTwoRangesRead ==
    /\ Passed("read_pci_info_from") =>
           /\ HasPciRanges(input)
           /\ Len(PciRanges(input)) >= 2
           /\ info.pci_info.ranges = SubSeq(PciRanges(input), 1, 2)
    /\ (FailedAt("read_pci_info_from") /\ HasPciRanges(input) /\ Len(PciRanges(input)) >= 2)
           => \/ IsNone(PciMask(input))
              \/ IsNone(PciMap(input))
              \/ Unwrap(failed_at).error = "NoSpace"

\* The run has ended well on a tree whose third range no validation would accept
C6_Witness ==
    /\ pc = "done"
    /\ Len(PciRanges(input)) = 3
    /\ ~PciRangeAcceptable(PciRanges(input)[3], info.memory_range)

(***************************************************************************)
(* C7                                                                      *)
(***************************************************************************)
\* The shape of entry idx of the interrupt-map; cell 5, the controller phandle, is free
IrqMapShape(irq_map, idx) ==
    /\ irq_map[1] = (idx + 1) * 2048 /\ irq_map[2] = 0 /\ irq_map[3] = 0
    /\ irq_map[4] = 1
    /\ irq_map[6] = 0 /\ irq_map[7] = 0
    /\ irq_map[8] = 0
    /\ irq_map[9] = 4 + idx
    /\ irq_map[10] = 4

\* C7: validate_pci_irq_map accepts the entry at index i only if its PCI address is
\* ((i + 1) << 11, 0, 0), its PCI interrupt is 1, its GIC address is (0, 0), its
\* interrupt type is GIC_SPI (0), its interrupt number is 4 + i and its trigger is
\* IRQ_TYPE_LEVEL_HIGH (4); any other entry is rejected with InvalidFdt, and so is the
\* tree that holds it.
C7_IrqMapShapeOnly ==
    /\ (pc = "returned" /\ call.fn = "validate_pci_irq_map") =>
           IF IrqMapShape(call.args[1], call.args[2])
           THEN IsOk(Unwrap(ret))
           ELSE ret = Some(InvalidFdt)
    /\ Passed("validate_pci_info") =>
           \A i \in 1..Len(info.pci_info.irq_maps) :
               IrqMapShape(info.pci_info.irq_maps[i], i - 1)

\* The call has rejected an entry that is wrong in its interrupt number only
C7_Witness ==
    /\ pc = "returned"
    /\ call.fn = "validate_pci_irq_map"
    /\ call.args[2] = 3
    /\ IrqMapShape([call.args[1] EXCEPT ![9] = 7], 3)
    /\ call.args[1][9] # 7
    /\ ret = Some(InvalidFdt)

(***************************************************************************)
(* C8                                                                      *)
(***************************************************************************)
\* The k-th complete chunk of N cells
Chunk(cells, N, k) == SubSeq(cells, N * (k - 1) + 1, N * k)

\* C8 as stated: a tree is accepted only if its interrupt-map-mask holds exactly one
\* mask, equal to [0xf800, 0, 0, 7].
C8_Original == pc = "done" => Unwrap(PciMask(input)) = <<63488, 0, 0, 7>>

\* C8: a tree is accepted only if its interrupt-map-mask property is present, holds at
\* most ten complete masks and each of them equals [0xf800, 0, 0, 7]; no mask at all,
\* and several equal masks, are accepted, and cells after the last complete mask are
\* ignored.
C8_EveryMaskFixed ==
    LET cells == Unwrap(PciMask(input))
        n == Len(cells) \div 4
        fixed == \A k \in 1..n : Chunk(cells, 4, k) = <<63488, 0, 0, 7>>
    IN  /\ Passed("validate_pci_info") =>
               /\ IsSome(PciMask(input))
               /\ n <= 10
               /\ fixed
               /\ info.pci_info.irq_masks = [k \in 1..n |-> Chunk(cells, 4, k)]
        /\ (/\ FailedAt("validate_pci_info")
            /\ \A i \in 1..2 : PciRangeAcceptable(info.pci_info.ranges[i], info.memory_range)
            /\ \A i \in 1..Len(info.pci_info.irq_maps) :
                   IrqMapShape(info.pci_info.irq_maps[i], i - 1))
               => ~fixed

\* The run has ended well on a tree with two masks and a trailing cell
C8_Witness ==
    /\ pc = "done"
    /\ Len(Unwrap(PciMask(input))) = 9
    /\ Len(info.pci_info.irq_masks) = 2

(***************************************************************************)
(* C9                                                                      *)
(***************************************************************************)
\* C9 as stated: read_pci_info_from rejects every interrupt-map of more than 100 cells
\* and every interrupt-map-mask of more than 40 cells.
C9_Original ==
    Passed("read_pci_info_from") =>
        /\ Len(Unwrap(PciMap(input))) <= 100
        /\ Len(Unwrap(PciMask(input))) <= 40

\* C9: read_pci_info_from fails with NoSpace exactly when the interrupt-map-mask holds
\* an eleventh complete mask (44 cells or more) or the interrupt-map an eleventh complete
\* entry (110 cells or more); up to ten complete chunks are stored, and the cells of an
\* incomplete last chunk are dropped without an error.
C9_EleventhChunkRejected ==
    LET masks == Len(Unwrap(PciMask(input))) \div 4
        maps == Len(Unwrap(PciMap(input))) \div 10
    IN  /\ Passed("read_pci_info_from") =>
               /\ masks <= 10 /\ Len(info.pci_info.irq_masks) = masks
               /\ maps <= 10 /\ Len(info.pci_info.irq_maps) = maps
        /\ (/\ FailedAt("read_pci_info_from")
            /\ HasPciRanges(input) /\ Len(PciRanges(input)) >= 2
            /\ IsSome(PciMask(input)))
               => (Unwrap(failed_at).error = "NoSpace"
                      <=> (masks > 10 \/ (IsSome(PciMap(input)) /\ maps > 10)))

\* The call has failed with NoSpace on an interrupt-map of eleven entries
C9_Witness ==
    /\ FailedAt("read_pci_info_from")
    /\ Unwrap(failed_at).error = "NoSpace"
    /\ Len(Unwrap(PciMap(input))) = 110
    /\ Len(Unwrap(PciMask(input))) = 4

(***************************************************************************)
(* C10                                                                     *)
(***************************************************************************)
\* The conditions of C10, with the sum of address and size taken in the integers
SwiotlbAcceptable(swiotlb_info, memory_range) ==
    /\ swiotlb_info.size # U64Zero
    /\ PageMultiple(swiotlb_info.size)
    /\ IsSome(swiotlb_info.align) => PageMultiple(Unwrap(swiotlb_info.align))
    /\ IsSome(swiotlb_info.addr) =>
           LET end == AddWithCarry(Unwrap(swiotlb_info.addr), swiotlb_info.size)
           IN  /\ end.carry = 0
               /\ U64Le(memory_range.start, Unwrap(swiotlb_info.addr))
               /\ U64Le(end.sum, memory_range.end)

\* C10: validate_swiotlb_info accepts exactly when the size is a non-zero multiple of
\* the page size, the alignment (when given) is a multiple of the page size, address
\* plus size does not overflow, and the fixed range (when there is an address) lies
\* within the memory range; a tree is accepted only with such a pool.
C10_SwiotlbAcceptedIff ==
    /\ (pc = "returned" /\ call.fn = "validate_swiotlb_info") =>
           IF SwiotlbAcceptable(call.args[1], call.args[2])
           THEN IsOk(Unwrap(ret))
           ELSE ret = Some(InvalidFdt)
    /\ Passed("validate_swiotlb_info") => SwiotlbAcceptable(info.swiotlb_info, info.memory_range)

\* The call has rejected a page-aligned pool inside memory whose end wraps around
C10_Witness ==
    /\ pc = "returned"
    /\ call.fn = "validate_swiotlb_info"
    /\ IsSome(call.args[1].addr)
    /\ PageMultiple(call.args[1].size)
    /\ AddWithCarry(Unwrap(call.args[1].addr), call.args[1].size).carry = 1
    /\ U64Le(call.args[2].start, Unwrap(call.args[1].addr))
    /\ U64Le(AddWithCarry(Unwrap(call.args[1].addr), call.args[1].size).sum, call.args[2].end)
    /\ ret = Some(InvalidFdt)

(***************************************************************************)
(* C11                                                                     *)
(***************************************************************************)
\* The PCI host bridge node and the three properties read_pci_info_from reads are there
HasPciFacts(t) ==
    /\ IsSome(t.pci)
    /\ IsSome(Unwrap(t.pci).ranges)
    /\ IsSome(Unwrap(t.pci).interrupt_map_mask)
    /\ IsSome(Unwrap(t.pci).interrupt_map)

\* C11 as stated: among the read steps, the absence of a fact is fatal for the memory
\* range and the CPU count only; a tree without the PCI host bridge, or without its
\* ranges or interrupt tables, is not rejected by read_pci_info_from.
C11_Original == FailedAt("read_pci_info_from") => HasPciFacts(input)

\* C11: the absence of /config or its kernel properties, of /chosen or its initrd and
\* bootargs properties, of every serial port and of /avf or its vendor key is not an
\* error of the read steps (the fact is read as None, or as no address); the absence of
\* the PCI host bridge node, of its ranges property, of its interrupt-map-mask or of its
\* interrupt-map makes read_pci_info_from fail with NotFound, as the absence of the
\* memory range makes read_and_validate_memory_range fail.
C11_AbsenceFatalForMemoryAndPci ==
    /\ FailedAt("read_kernel_range_from") => IsSome(input.config)
    /\ FailedAt("read_initrd_range_from") => IsSome(input.chosen)
    /\ FailedAt("read_bootargs_from") => IsSome(input.chosen)
    /\ FailedAt("read_serial_info_from") => Len(input.serial) > 0
    /\ ~FailedAt("read_vendor_public_key_from")
    /\ (Passed("read_kernel_range_from") /\ IsNone(input.config)) => info.kernel_range = None
    /\ (Passed("read_bootargs_from") /\ IsNone(input.chosen))
           => (info.bootargs = None /\ info.initrd_range = None)
    /\ (Passed("read_serial_info_from") /\ Len(input.serial) = 0)
           => info.serial_info.addrs = <<>>
    /\ (Passed("read_vendor_public_key_from") /\ IsNone(input.avf))
           => info.vendor_public_key = None
    /\ Passed("read_pci_info_from") => HasPciFacts(input)
    /\ (FailedAt("read_pci_info_from") /\ ~HasPciFacts(input))
           => Unwrap(failed_at).error = "NotFound"
    /\ Passed("read_and_validate_memory_range") => IsSome(input.memory)
    /\ input = BareTree => pc # "failed"

\* The run has ended well on the tree without optional facts
C11_Witness ==
    /\ pc = "done"
    /\ input = BareTree
    /\ info.kernel_range = None /\ info.initrd_range = None /\ info.bootargs = None
    /\ info.vendor_public_key = None /\ info.serial_info.addrs = <<>>

(***************************************************************************)
(* C12                                                                     *)
(***************************************************************************)
\* What the call of a patch_* function has returned: the tree it leaves when it returns
\* Ok, else its error or its panic
PatchRet == AsResult(Unwrap(ret))

\* The first n compatible nodes of the tree in document order, and the compatible nodes
\* after them
KeptCpus(nodes, n) ==
    {j \in CompatibleNodes(nodes) : Cardinality({k \in CompatibleNodes(nodes) : k < j}) < n}
PrunedCpus(nodes, n) == CompatibleNodes(nodes) \ KeptCpus(nodes, n)

\* The tree with the given nodes tombstoned, each with its subnodes, and every other slot
\* as it was
Tombstoned(nodes, deleted) ==
    [j \in 1..Len(nodes) |->
        IF \E i \in deleted : j = i \/ InSubtree(nodes, i, j)
        THEN [nodes[j] EXCEPT !.live = FALSE]
        ELSE nodes[j]]

\* The compatible nodes to prune that have a compatible node below them
NestedPruned(nodes, n) ==
    {i \in PrunedCpus(nodes, n) : \E j \in CompatibleNodes(nodes) : InSubtree(nodes, i, j)}

\* The first of a non-empty set of slots
FirstOf(slots) == CHOOSE i \in slots : \A j \in slots : i <= j

\* C12 as stated: called with num_cpus = N on a tree with M >= N "arm,arm-v8" nodes,
\* patch_num_cpus returns Ok and leaves exactly the first N of them, in document order;
\* the other M - N are tombstoned (with their subnodes, which are part of them) and every
\* other node is as it was.
C12_Original ==
    (pc = "returned" /\ call.fn = "patch_num_cpus"
        /\ U64Le(call.args[2], U64(NumCompatible(call.args[1].cpus)))) =>
           /\ Unwrap(ret).result = Ok(Unit)
           /\ Unwrap(ret).fdt =
                  [call.args[1] EXCEPT !.cpus =
                      Tombstoned(call.args[1].cpus,
                                 PrunedCpus(call.args[1].cpus, U64ToNat(call.args[2])))]

\* C12, as the code has it: when none of the nodes to prune has an "arm,arm-v8" node
\* below it, patch_num_cpus does as stated.  When one has, the deletion of the first such
\* node returns the handle of its (tombstoned) subnode, the next search starts from that
\* handle and fails: patch_num_cpus returns BadOffset, and the "arm,arm-v8" nodes that
\* follow the subtree are still there.  With N > M it returns NoSpace and writes nothing.
\* In a run of sanitize_device_tree, whose templates have no CPU node below another, the
\* output holds the first num_cpus CPU nodes of the template.
C12_FirstCpusRemainUnlessNested ==
    /\ (pc = "returned" /\ call.fn = "patch_num_cpus") =>
           LET t == call.args[1]
               n == U64ToNat(call.args[2])
           IN  IF U64Lt(U64(NumCompatible(t.cpus)), call.args[2])
               THEN Unwrap(ret) = Left(Err("NoSpace"), t)
               ELSE IF NestedPruned(t.cpus, n) = {}
               THEN Unwrap(ret) =
                        Wrote([t EXCEPT !.cpus = Tombstoned(t.cpus, PrunedCpus(t.cpus, n))])
               ELSE Unwrap(ret) =
                        Left(Err("BadOffset"),
                             [t EXCEPT !.cpus =
                                 Tombstoned(t.cpus,
                                            {i \in PrunedCpus(t.cpus, n) :
                                                 i <= FirstOf(NestedPruned(t.cpus, n))})])
    /\ Passed("patch_device_tree") =>
           fdt.cpus = Tombstoned(Template.cpus,
                                 PrunedCpus(Template.cpus, U64ToNat(info.num_cpus)))

\* Of the nodes cpu0, cpu1, cpu1/core and cpu2, all "arm,arm-v8", one was to be kept:
\* cpu1 and its subnode are tombstoned, cpu2 is not, and BadOffset is returned
C12_Witness ==
    /\ pc = "returned"
    /\ call.fn = "patch_num_cpus"
    /\ call.args[1].cpus = <<CpuNode, CpuNode, [depth |-> 2, compatible |-> TRUE, live |-> TRUE],
                             CpuNode>>
    /\ call.args[2] = U64(1)
    /\ Unwrap(ret).result = Err("BadOffset")
    /\ Unwrap(ret).fdt.cpus[1].live
    /\ ~Unwrap(ret).fdt.cpus[2].live
    /\ ~Unwrap(ret).fdt.cpus[3].live
    /\ Unwrap(ret).fdt.cpus[4].live

(***************************************************************************)
(* C13                                                                     *)
(***************************************************************************)
\* Byte k (1..8, most significant first) of a 64-bit value
ByteOf(a, k) == IF k % 2 = 1 THEN a[(k + 1) \div 2] \div 256 ELSE a[k \div 2] % 256

\* The 16 bytes C13 expects for a memory range
ExpectedMemoryReg(memory_range) ==
    [k \in 1..16 |-> IF k <= 8 THEN ByteOf(MEM_START, k)
                     ELSE ByteOf(SubWithBorrow(memory_range.end, memory_range.start).diff, k - 8)]

\* C13: after a successful sanitize_device_tree the reg property of /memory is 16 bytes:
\* MEM_START and then the length of the validated memory range, each as a big-endian
\* 64-bit value; patch_device_tree on a template whose /memory reg is not 16 bytes wide
\* returns InvalidFdt, and on one whose reg is 16 bytes wide writes these 16 bytes once
\* the statement before patch_memory_range has succeeded, and returns no other error
\* than InvalidFdt, unless one of its statements panics.
C13_MemoryRegWritten ==
    /\ pc = "done" =>
           RegBytes(Unwrap(Unwrap(fdt.memory).reg)) = ExpectedMemoryReg(info.memory_range)
    /\ (pc = "returned" /\ call.fn = "patch_device_tree") =>
           LET reg == Unwrap(call.args[1].memory).reg
               r == Unwrap(ret)
               before == PatchedBefore(call.args[1], 1, PatchIndex("patch_memory_range"),
                                       call.args[2])
           IN  IF IsPanic(r.result) THEN TRUE
               ELSE IF IsSome(reg) /\ Len(RegBytes(Unwrap(reg))) = 16
               THEN /\ IsOk(before)
                           => RegBytes(Unwrap(Unwrap(r.fdt.memory).reg))
                                  = ExpectedMemoryReg(call.args[2].memory_range)
                    /\ IsErr(r.result) => r.result = InvalidFdt
                    /\ (IsSome(call.args[2].bootargs)
                            /\ FreeBytes(call.args[1]) >= 12 + FDT_TAGALIGN(Len(Unwrap(call.args[2].bootargs)) + 1) + 9)
                           => IsOk(r.result)
               ELSE r.result = InvalidFdt

\* The run has ended with the range 0x80000000..0x90000000 written as 0x80000000 and
\* 0x10000000
C13_Witness ==
    /\ pc = "done"
    /\ info.memory_range = Range(<<0, 0, 32768, 0>>, <<0, 0, 36864, 0>>)
    /\ RegBytes(Unwrap(Unwrap(fdt.memory).reg))
           = <<0, 0, 0, 0, 128, 0, 0, 0, 0, 0, 0, 0, 16, 0, 0, 0>>

(***************************************************************************)
(* C14                                                                     *)
(***************************************************************************)
\* A call of modify_for_next_stage has returned
NextStageReturned == pc = "returned" /\ call.fn = "modify_for_next_stage"

\* What the call that has returned gives when it is made without a debug policy
WithoutDebugPolicy ==
    modify_for_next_stage(call.args[1], call.args[2], call.args[3], call.args[4], None,
                          call.args[6], call.args[7])

\* The operations of the returned call that failed
FailedOps == {Unwrap(ret).ops[i].op : i \in {j \in 1..Len(Unwrap(ret).ops) : Unwrap(ret).ops[j].failed}}

\* C14: when the call was given a debug policy that Fdt::from_mut_slice refused as
\* corrupted, or that fdt_overlay_apply failed to apply (be it that the policy does not
\* fit the tree or that the blob has no room for it), modify_for_next_stage returns what
\* it returns without a debug policy and leaves the same tree.
C14_DroppedPolicyLikeNoPolicy ==
    (/\ NextStageReturned
     /\ IsSome(call.args[5])
     /\ FailedOps \cap {"from_mut_slice", "apply_overlay"} # {})
        => /\ IsOk(Unwrap(ret).result) <=> IsOk(WithoutDebugPolicy.result)
           /\ IsErr(Unwrap(ret).result) => Val(Unwrap(ret).result) = Val(WithoutDebugPolicy.result)
           /\ Unwrap(ret).fdt = WithoutDebugPolicy.fdt

\* A policy that would have kept the console argument found 63 free bytes where it takes
\* 64: fdt_overlay_apply failed, the backup was restored, and the call succeeded with the
\* console argument dropped and without /avf/guest/common
C14_Witness ==
    /\ NextStageReturned
    /\ IsSome(call.args[5])
    /\ Unwrap(call.args[5]).check_full
    /\ Unwrap(call.args[5]).applies
    /\ Unwrap(call.args[5]).common.log = Some(PropU32(1))
    /\ call.args[1].buffer_len - call.args[1].used = 63
    /\ IsNone(call.args[1].common)
    /\ IsOk(Unwrap(ret).result)
    /\ Op("apply_overlay", TRUE) \in {Unwrap(ret).ops[i] : i \in 1..Len(Unwrap(ret).ops)}
    /\ Op("copy_from_slice", FALSE) \in {Unwrap(ret).ops[i] : i \in 1..Len(Unwrap(ret).ops)}
    /\ ~call.args[6]
    /\ Unwrap(call.args[1].chosen).bootargs
           = Some([nul_terminated |-> TRUE,
                   text |-> <<"panic", "=", "-1", " ", "console", "=", "ttyAMA0">>])
    /\ Unwrap(Unwrap(ret).fdt.chosen).bootargs
           = Some([nul_terminated |-> TRUE, text |-> <<"panic", "=", "-1">>])
    /\ IsNone(Unwrap(ret).fdt.common)
    /\ ~Unwrap(ret).fdt.unpacked

(***************************************************************************)
(* C15                                                                     *)
(***************************************************************************)
\* The open-dice node that the search from /reserved-memory finds in the tree
FoundDice(t) ==
    IF IsSome(Unwrap(t.reserved_memory).dice) THEN Unwrap(t.reserved_memory).dice
    ELSE t.later_dice

\* The tree lacks /reserved-memory, an open-dice node after its start or a 16-byte reg in
\* that node
DiceNodeUnfit ==
    \/ IsNone(call.args[1].reserved_memory)
    \/ IsNone(FoundDice(call.args[1]))
    \/ IsNone(Unwrap(FoundDice(call.args[1])).reg)
    \/ Len(Unwrap(Unwrap(FoundDice(call.args[1])).reg)) # 16

\* The tree has no 8-byte kaslr-seed in /chosen: /chosen is missing, or the property is,
\* or it has another length
KaslrSeedMissing ==
    \/ IsNone(call.args[1].chosen)
    \/ IsNone(Unwrap(call.args[1].chosen).kaslr_seed)
    \/ Len(Unwrap(Unwrap(call.args[1].chosen).kaslr_seed)) # 8

\* /chosen is there without an 8-byte kaslr-seed
KaslrSeedUnfit == IsSome(call.args[1].chosen) /\ KaslrSeedMissing

\* The bootargs are to be filtered and they are malformed, or a flag of /avf/guest/common
\* of the tree the call has left is
BootargsUnfit ==
    /\ ~call.args[6]
    /\ IsSome(call.args[1].chosen)
    /\ IsSome(Unwrap(call.args[1].chosen).bootargs)
    /\ \/ ~Unwrap(Unwrap(call.args[1].chosen).bootargs).nul_terminated
       \/ \E i \in DOMAIN Unwrap(Unwrap(call.args[1].chosen).bootargs).text :
              Unwrap(Unwrap(call.args[1].chosen).bootargs).text[i] = "<ff>"
       \/ /\ IsSome(Unwrap(ret).fdt.common)
          /\ \E f \in {"ramdump", "log"} :
                 /\ IsSome(Unwrap(Unwrap(ret).fdt.common)[f])
                 /\ Unwrap(Unwrap(Unwrap(ret).fdt.common)[f]).len # 4

\* The failures the call can have recovered from when it has succeeded: those of the
\* debug policy; delprop of a flag property that is not there returns NotFound, which
\* empty_or_delete_prop takes for the success that the deletion of an absent property is
RecoveredOps == {"from_mut_slice", "apply_overlay", "delprop"}

\* C15 as stated: on a tree that libfdt accepts, a missing /reserved-memory, open-dice
\* node or 16-byte reg, a missing kaslr-seed and malformed bootargs make
\* modify_for_next_stage return an error, and a call that succeeds has recovered from no
\* failure but that of the debug policy.
C15_Original ==
    NextStageReturned
        => /\ (call.args[1].valid /\ (DiceNodeUnfit \/ KaslrSeedMissing \/ BootargsUnfit))
                  => IsErr(Unwrap(ret).result)
           /\ IsOk(Unwrap(ret).result) => FailedOps \subseteq RecoveredOps

\* C15, as the code has it: a missing /reserved-memory, open-dice node or 16-byte reg,
\* malformed bootargs and, in a tree that has /chosen, a missing kaslr-seed make
\* modify_for_next_stage return an error, as does a flag property for which the blob has
\* no room left; a call that succeeds has recovered from no failure but that of the debug
\* policy.  A tree without /chosen, hence without kaslr-seed, is not refused for it.
C15_FailuresFatalWhenChosenPresent ==
    NextStageReturned
        => /\ (call.args[1].valid /\ (DiceNodeUnfit \/ KaslrSeedUnfit \/ BootargsUnfit))
                  => IsErr(Unwrap(ret).result)
           /\ IsOk(Unwrap(ret).result) => FailedOps \subseteq RecoveredOps
           /\ (call.args[1].valid /\ ~DiceNodeUnfit /\ IsNone(call.args[1].chosen))
                  => IsOk(Unwrap(ret).result)

\* The debug policy was applied to a tree with 57 free bytes, which both flag properties
\* take, and took 20 of them: avf,strict-boot was set, avf,new-instance found no room and
\* the call returned NoSpace
C15_Witness ==
    /\ NextStageReturned
    /\ call.args[1].buffer_len - call.args[1].used = 57
    /\ call.args[1].strings = {}
    /\ call.args[3] /\ call.args[4]
    /\ Unwrap(ret).result = Err("NoSpace")
    /\ Unwrap(ret).ops[Len(Unwrap(ret).ops)] = Op("setprop", TRUE)
    /\ Op("apply_overlay", FALSE) \in {Unwrap(ret).ops[i] : i \in 1..Len(Unwrap(ret).ops)}
    /\ Unwrap(Unwrap(ret).fdt.chosen).strict_boot = Some(<<>>)
    /\ Unwrap(Unwrap(ret).fdt.chosen).new_instance = None
    /\ Unwrap(ret).fdt.buffer_len - Unwrap(ret).fdt.used = 9

(***************************************************************************)
(* C16                                                                     *)
(***************************************************************************)
\* What C16 expects of /chosen after the call that has returned
ChosenAsConfigured(chosen) ==
    /\ chosen.kaslr_seed = Some([k \in 1..8 |-> ByteOf(call.args[7], k)])
    /\ chosen.strict_boot = (IF call.args[4] THEN Some(<<>>) ELSE None)
    /\ chosen.new_instance = (IF call.args[3] THEN Some(<<>>) ELSE None)

\* C16 as stated: after a successful modify_for_next_stage /chosen holds kaslr-seed with
\* the big-endian seed, an empty avf,strict-boot exactly when strict_boot and an empty
\* avf,new-instance exactly when new_instance.
C16_Original ==
    (NextStageReturned /\ IsOk(Unwrap(ret).result))
        => /\ IsSome(Unwrap(ret).fdt.chosen)
           /\ ChosenAsConfigured(Unwrap(Unwrap(ret).fdt.chosen))

\* C16, as the code has it: after a successful modify_for_next_stage on a tree that has
\* /chosen, /chosen holds the seed and the two flags as configured, an absent flag having
\* been deleted with success; on a tree without /chosen the call succeeds as well and the
\* tree still has no /chosen, hence no kaslr-seed.
C16_ChosenEditedOnlyWhenPresent ==
    (NextStageReturned /\ IsOk(Unwrap(ret).result))
        => IF IsSome(call.args[1].chosen)
           THEN /\ IsSome(Unwrap(ret).fdt.chosen)
                /\ ChosenAsConfigured(Unwrap(Unwrap(ret).fdt.chosen))
           ELSE IsNone(Unwrap(ret).fdt.chosen)

\* A call has succeeded that set avf,strict-boot, deleted an avf,new-instance that was not
\* there and wrote the seed 0x123456789abcdef0
C16_Witness ==
    /\ NextStageReturned
    /\ IsOk(Unwrap(ret).result)
    /\ call.args[4] /\ ~call.args[3]
    /\ IsSome(call.args[1].chosen)
    /\ IsNone(Unwrap(call.args[1].chosen).strict_boot)
    /\ IsNone(Unwrap(call.args[1].chosen).new_instance)
    /\ Unwrap(Unwrap(ret).fdt.chosen).kaslr_seed = Some(<<18, 52, 86, 120, 154, 188, 222, 240>>)
    /\ Unwrap(Unwrap(ret).fdt.chosen).strict_boot = Some(<<>>)
    /\ Unwrap(Unwrap(ret).fdt.chosen).new_instance = None

(***************************************************************************)
(* C17                                                                     *)
(***************************************************************************)
\* The flag f of /avf/guest/common is 1 in the tree the call has left
PolicyFlagSet(f) ==
    /\ IsSome(Unwrap(ret).fdt.common)
    /\ Unwrap(Unwrap(ret).fdt.common)[f] = Some(PropU32(1))

\* The allow-list of C17, on an argument given by its pieces
Allowed(arg) ==
    \/ arg = <<"panic", "=", "-1">>
    \/ arg[1] = "crashkernel" /\ PolicyFlagSet("ramdump")
    \/ arg[1] = "console" /\ PolicyFlagSet("log")

\* The arguments of the list that are allowed, in order
RECURSIVE AllowedOf(_)
AllowedOf(args) ==
    IF Len(args) = 0 THEN <<>>
    ELSE (IF Allowed(Head(args)) THEN <<Head(args)>> ELSE <<>>) \o AllowedOf(Tail(args))

\* C17: after a successful modify_for_next_stage on a tree whose /chosen has bootargs,
\* when debuggable the bootargs are unchanged, and otherwise, the bootargs being a list
\* of arguments with one space between them, they are the NUL-terminated string of the
\* allowed arguments in their original order with one space between them: "panic=-1",
\* any "crashkernel" when ramdump of /avf/guest/common is 1 in the tree, any "console"
\* when log is.  So "panic=-1 console=ttyAMA0 foo=bar" becomes "panic=-1 console=ttyAMA0"
\* when log is 1 and "panic=-1" when it is not.
C17_BootargsFiltered ==
    (/\ NextStageReturned
     /\ IsOk(Unwrap(ret).result)
     /\ IsSome(call.args[1].chosen)
     /\ IsSome(Unwrap(call.args[1].chosen).bootargs))
        => LET old == Unwrap(Unwrap(call.args[1].chosen).bootargs)
               new == Unwrap(Unwrap(ret).fdt.chosen).bootargs
           IN  /\ call.args[6] => new = Some(old)
               /\ ~call.args[6] =>
                      \E l \in NextStageArgLists :
                          /\ old.text = JoinArgs(l)
                          /\ new = Some([nul_terminated |-> TRUE,
                                         text |-> JoinArgs(AllowedOf(l))])
               /\ (/\ ~call.args[6]
                   /\ old.text = <<"panic", "=", "-1", " ", "console", "=", "ttyAMA0", " ",
                                   "foo", "=", "bar">>)
                      => Unwrap(new).text
                             = (IF PolicyFlagSet("log")
                                THEN <<"panic", "=", "-1", " ", "console", "=", "ttyAMA0">>
                                ELSE <<"panic", "=", "-1">>)

\* The bootargs "panic=-1 console=ttyAMA0 foo=bar" were filtered in a tree to which the
\* debug policy had added /avf/guest/common with log = 1: panic=-1 and console=ttyAMA0
\* remain, one space between them
C17_Witness ==
    /\ NextStageReturned
    /\ IsOk(Unwrap(ret).result)
    /\ ~call.args[6]
    /\ IsSome(call.args[1].chosen)
    /\ Unwrap(call.args[1].chosen).bootargs
           = Some([nul_terminated |-> TRUE,
                   text |-> <<"panic", "=", "-1", " ", "console", "=", "ttyAMA0", " ",
                              "foo", "=", "bar">>])
    /\ IsNone(call.args[1].common)
    /\ Unwrap(ret).fdt.common = Some([ramdump |-> None, log |-> Some(PropU32(1))])
    /\ Unwrap(Unwrap(ret).fdt.chosen).bootargs
           = Some([nul_terminated |-> TRUE,
                   text |-> <<"panic", "=", "-1", " ", "console", "=", "ttyAMA0">>])

(***************************************************************************)
(* C18                                                                     *)
(***************************************************************************)
\* The operations that change the size of the blob
SizeChanging == {"apply_overlay", "setprop", "add_subnode", "delprop", "trimprop"}

\* The i-th operation of the returned call found the tree unpacked: an unpack precedes it
\* with neither a pack nor the restoring of the (packed) backup in between
AfterUnpack(ops, i) ==
    \E j \in 1..(i - 1) :
        /\ ops[j] = Op("unpack", FALSE)
        /\ \A k \in (j + 1)..(i - 1) : ops[k].op \notin {"pack", "copy_from_slice"}

\* C18: in sanitize_device_tree the overlay and the patches are applied to an unpacked
\* tree, after the unpack step and before the pack step, and the tree is packed when the
\* function has succeeded; in modify_for_next_stage every size-changing operation follows
\* an unpack and, on success, precedes the one pack, which is the last tree operation.
C18_EditsBetweenUnpackAndPack ==
    /\ (InSanitize /\ pc \in {"apply_overlay", "patch_device_tree", "pack"})
           => /\ fdt.unpacked
              /\ StepIndex("unpack") < StepIndex(pc)
              /\ StepIndex(pc) <= StepIndex("pack")
    /\ (InSanitize /\ pc = "done")
           => /\ ~fdt.unpacked
              /\ StepIndex("done") = StepIndex("pack") + 1
    /\ NextStageReturned
           => LET ops == Unwrap(ret).ops
              IN  /\ \A i \in 1..Len(ops) :
                         ops[i].op \in SizeChanging => AfterUnpack(ops, i)
                  /\ IsOk(Unwrap(ret).result)
                         => /\ ops[Len(ops)] = Op("pack", FALSE)
                            /\ \A i \in 1..(Len(ops) - 1) : ops[i].op # "pack"
                            /\ ~Unwrap(ret).fdt.unpacked

\* A call has succeeded that applied a debug policy, set one flag, deleted the other and
\* rewrote the bootargs, and then packed
C18_Witness ==
    /\ NextStageReturned
    /\ IsOk(Unwrap(ret).result)
    /\ {Op("apply_overlay", FALSE), Op("setprop", FALSE), Op("delprop", FALSE)}
           \subseteq {Unwrap(ret).ops[i] : i \in 1..Len(Unwrap(ret).ops)}
    /\ ~call.args[6]
    /\ IsSome(Unwrap(call.args[1].chosen).bootargs)
    /\ Unwrap(ret).ops[Len(Unwrap(ret).ops)] = Op("pack", FALSE)

(***************************************************************************)
(* C19                                                                     *)
(***************************************************************************)
\* C19: copy_from_slice of a slice that fits the buffer returns Ok and leaves the slice at
\* the start of the buffer, zeroes from its end up to the total size of the tree that was
\* there (none when the slice is longer than that), and the bytes beyond as they were;
\* for a slice longer than the buffer it returns NoSpace and leaves the buffer as it was.
C19_CopyThenZeroOldTree ==
    (pc = "returned" /\ call.fn = "copy_from_slice")
        => LET buffer == call.args[1]
               new == call.args[2]
               old_size == buffer[8] + 256 * (buffer[7] + 256 * (buffer[6] + 256 * buffer[5]))
               after == Unwrap(ret).buffer
           IN  IF Len(new) <= Len(buffer)
               THEN /\ IsOk(Unwrap(ret).result)
                    /\ Len(after) = Len(buffer)
                    /\ \A i \in 1..Len(buffer) :
                           after[i] = (IF i <= Len(new) THEN new[i]
                                       ELSE IF i <= old_size THEN 0
                                       ELSE buffer[i])
               ELSE /\ IsErr(Unwrap(ret).result)
                    /\ Val(Unwrap(ret).result) = "NoSpace"
                    /\ after = buffer

\* A 9-byte slice was copied over a 10-byte tree in an 11-byte buffer: byte 10 is zero and
\* byte 11 is what it was
C19_Witness ==
    /\ pc = "returned"
    /\ call.fn = "copy_from_slice"
    /\ Len(call.args[1]) = 11
    /\ call.args[1][8] = 10
    /\ Len(call.args[2]) = 9
    /\ IsOk(Unwrap(ret).result)
    /\ Unwrap(ret).buffer = <<208, 13, 254, 237, 0, 0, 0, 9, 201, 0, 103>>

(***************************************************************************)
(* C20                                                                     *)
(***************************************************************************)
\* A constructor of Fdt has returned
ConstructorReturned ==
    pc = "returned" /\ call.fn \in {"from_slice", "from_mut_slice", "create_empty_tree"}

\* The number of tokens of the given tag
CountTag(tokens, tag) == Cardinality({i \in 1..Len(tokens) : tokens[i].tag = tag})

\* The header or the structure of the blob is malformed: wrong magic, a total size beyond
\* the buffer, structure that is not inside the header's total size, nodes that are not
\* closed or closed twice, or no END token at the end
Malformed(blob) ==
    \/ ~blob.magic
    \/ blob.totalsize > blob.capacity
    \/ Len(blob.tokens) = 0
    \/ TokenOffset(blob, Len(blob.tokens) + 1) > blob.totalsize
    \/ blob.off_dt_struct < FDT_V17_SIZE
    \/ CountTag(blob.tokens, "BEGIN_NODE") # CountTag(blob.tokens, "END_NODE")
    \/ blob.tokens[Len(blob.tokens)].tag # "END"

\* C20: every node name and property value that a getter returns for a tree returned by
\* from_slice, from_mut_slice or create_empty_tree is a byte range inside [0, totalsize),
\* and from_slice and from_mut_slice return an error for a blob whose header or structure
\* is malformed.
C20_RangesWithinTotalSize ==
    ConstructorReturned
        => /\ IsOk(Unwrap(ret)) =>
                  \A r \in GetterResults(Val(Unwrap(ret))) :
                      /\ IsOk(r)
                      /\ 0 <= Val(r).start
                      /\ Val(r).start <= Val(r).end
                      /\ Val(r).end <= Val(Unwrap(ret)).totalsize
           /\ (call.fn # "create_empty_tree" /\ Malformed(call.args[1])) => IsErr(Unwrap(ret))

\* from_mut_slice has returned a tree of two nodes and two properties whose buffer is
\* longer than the tree, the last property value ending 12 bytes before the total size
C20_Witness ==
    /\ ConstructorReturned
    /\ call.fn = "from_mut_slice"
    /\ IsOk(Unwrap(ret))
    /\ Val(Unwrap(ret)).capacity > Val(Unwrap(ret)).totalsize
    /\ Cardinality(GetterResults(Val(Unwrap(ret)))) = 4
    /\ Ok([start |-> 100, end |-> 108]) \in GetterResults(Val(Unwrap(ret)))
    /\ Val(Unwrap(ret)).totalsize = 120

(***************************************************************************)
(* C21                                                                     *)
(***************************************************************************)
\* Whether the block is read as it was: the header points at its bytes, and they are
\* still its bytes
Readable(blob, b) == blob.mem[b].intact /\ blob.mem[b].at = BlockOffset(blob, b)

\* The nodes, properties and values of a blob, as read through its header: the tokens of
\* the structure block, the names in the strings block and the memory reservations,
\* each as long as the block is readable
Content(blob) ==
    [tokens |-> IF Readable(blob, "struct") THEN blob.tokens ELSE <<>>,
     strings |-> IF Readable(blob, "strings") THEN blob.size_dt_strings ELSE -1,
     rsvmap |-> Readable(blob, "rsvmap")]

\* The buffer has the room unpack needs: none for blocks in order, and for blocks out of
\* order room for the packed tree after the tree
Sufficient(blob) ==
    fdt_blocks_misordered_(blob) => blob.totalsize + PackedSize(blob) <= blob.capacity

\* C21: for a valid tree in a buffer of sufficient capacity, unpack returns Ok, sets the
\* total size to the capacity and leaves the nodes, properties and values as they were,
\* and pack after it returns Ok and leaves them as they were; pack leaves the capacity
\* and the content of every valid tree as they were, whether it returns Ok or refuses
\* blocks out of order with BadLayout, and unpack after it does too.  Without the room,
\* unpack returns NoSpace.
C21_PackUnpackKeepContent ==
    /\ (pc = "returned" /\ call.fn = "unpack")
           => /\ IsOk(Unwrap(ret)) <=> Sufficient(call.args[1])
              /\ IsErr(Unwrap(ret)) => Val(Unwrap(ret)) = "NoSpace"
              /\ IsOk(Unwrap(ret))
                     => /\ Val(Unwrap(ret)).totalsize = call.args[1].capacity
                        /\ Val(Unwrap(ret)).capacity = call.args[1].capacity
                        /\ Content(Val(Unwrap(ret))) = Content(call.args[1])
                        /\ IsOk(check_full(Val(Unwrap(ret))))
                        /\ IsOk(Fdt_pack(Val(Unwrap(ret))))
                        /\ Content(Val(Fdt_pack(Val(Unwrap(ret))))) = Content(call.args[1])
                        /\ Val(Fdt_pack(Val(Unwrap(ret)))).capacity = call.args[1].capacity
    /\ (pc = "returned" /\ call.fn = "pack")
           => /\ IsOk(Unwrap(ret)) <=> ~fdt_blocks_misordered_(call.args[1])
              /\ IsErr(Unwrap(ret)) => Val(Unwrap(ret)) = "BadLayout"
              /\ IsOk(Unwrap(ret))
                     => /\ Val(Unwrap(ret)).capacity = call.args[1].capacity
                        /\ Val(Unwrap(ret)).totalsize <= call.args[1].totalsize
                        /\ Content(Val(Unwrap(ret))) = Content(call.args[1])
                        /\ IsOk(check_full(Val(Unwrap(ret))))
                        /\ IsOk(Fdt_unpack(Val(Unwrap(ret))))
                        /\ Content(Val(Fdt_unpack(Val(Unwrap(ret))))) = Content(call.args[1])
                        /\ Val(Fdt_unpack(Val(Unwrap(ret)))).totalsize = call.args[1].capacity
              /\ (IsErr(Unwrap(ret)) /\ Sufficient(call.args[1]))
                     => /\ IsOk(Fdt_unpack(call.args[1]))
                        /\ Content(Val(Fdt_unpack(call.args[1]))) = Content(call.args[1])
                        /\ Val(Fdt_unpack(call.args[1])).totalsize = call.args[1].capacity

\* A tree whose strings block lies before its structure block was unpacked in a buffer
\* with room for the packed tree after it: the blocks are in order behind the header,
\* the total size is the capacity, and every block is read as before
C21_Witness ==
    /\ pc = "returned"
    /\ call.fn = "unpack"
    /\ call.args[1].off_dt_strings < call.args[1].off_dt_struct
    /\ call.args[1].size_dt_strings = 12
    /\ Len(call.args[1].tokens) = 7
    /\ call.args[1].capacity = call.args[1].totalsize + PackedSize(call.args[1])
    /\ IsOk(Unwrap(ret))
    /\ Val(Unwrap(ret)).off_dt_struct = FDT_V17_SIZE + EmptyRsvmapSize
    /\ Val(Unwrap(ret)).off_dt_strings = FDT_V17_SIZE + EmptyRsvmapSize + 64
    /\ Val(Unwrap(ret)).totalsize = call.args[1].capacity
    /\ Content(Val(Unwrap(ret))).tokens = call.args[1].tokens
    /\ Val(Fdt_pack(Val(Unwrap(ret)))).totalsize = 132

\* pack has refused a tree whose blocks are out of order
C21_WitnessBadLayout ==
    /\ pc = "returned"
    /\ call.fn = "pack"
    /\ Unwrap(ret) = Err("BadLayout")
    /\ call.args[1].off_mem_rsvmap > call.args[1].off_dt_struct

(***************************************************************************)
(* C22                                                                     *)
(***************************************************************************)
\* A call of patch_dice_node has returned
PatchDiceNodeReturned == pc = "returned" /\ call.fn = "patch_dice_node"

\* The 16 bytes of the address and the length of the next-stage BCC
BccReg == [k \in 1..16 |-> IF k <= 8 THEN ByteOf(call.args[2], k) ELSE ByteOf(call.args[3], k - 8)]

\* C22 as stated: patch_dice_node succeeds only on an open-dice node inside
\* /reserved-memory, whose reg it sets to the address and the length, and leaves every
\* node outside /reserved-memory as it was; without /reserved-memory or such a node
\* inside it, it fails with NotFound.
C22_Original ==
    PatchDiceNodeReturned
        => IF \/ IsNone(call.args[1].reserved_memory)
              \/ IsNone(Unwrap(call.args[1].reserved_memory).dice)
           THEN IsErr(Unwrap(ret)) /\ Val(Unwrap(ret)) = "NotFound"
           ELSE IsOk(Unwrap(ret))
                    => /\ Unwrap(Unwrap(Val(Unwrap(ret)).reserved_memory).dice).reg = Some(BccReg)
                       /\ Val(Unwrap(ret)).later_dice = call.args[1].later_dice

\* C22, as the code has it: patch_dice_node fails with NotFound when /reserved-memory is
\* missing or no open-dice node follows its start in document order; otherwise it sets in
\* place the 16-byte reg of the first such node, which is the one inside /reserved-memory
\* if there is one and else the first one after it, outside /reserved-memory, and changes
\* nothing else.  A tree whose header has lost the magic is refused with BadMagic before
\* any node is looked up.
C22_FirstOpenDiceAfterReservedMemory ==
    PatchDiceNodeReturned
        => IF ~call.args[1].valid THEN Unwrap(ret) = Err("BadMagic")
           ELSE IF IsNone(call.args[1].reserved_memory) \/ IsNone(FoundDice(call.args[1]))
           THEN IsErr(Unwrap(ret)) /\ Val(Unwrap(ret)) = "NotFound"
           ELSE /\ IsOk(Unwrap(ret)) <=> /\ IsSome(Unwrap(FoundDice(call.args[1])).reg)
                                         /\ Len(Unwrap(Unwrap(FoundDice(call.args[1])).reg)) = 16
                /\ IsOk(Unwrap(ret))
                       => IF IsSome(Unwrap(call.args[1].reserved_memory).dice)
                          THEN Val(Unwrap(ret)) =
                                   [call.args[1] EXCEPT !.reserved_memory =
                                        Some([dice |-> Some([reg |-> Some(BccReg)])])]
                          ELSE Val(Unwrap(ret)) =
                                   [call.args[1] EXCEPT !.later_dice = Some([reg |-> Some(BccReg)])]

\* patch_dice_node has succeeded on a tree whose /reserved-memory holds no open-dice node:
\* it has written the reg of the open-dice node that follows /reserved-memory
C22_Witness ==
    /\ PatchDiceNodeReturned
    /\ IsOk(Unwrap(ret))
    /\ IsSome(call.args[1].reserved_memory)
    /\ IsNone(Unwrap(call.args[1].reserved_memory).dice)
    /\ Val(Unwrap(ret)).later_dice
           = Some([reg |-> Some(<<0, 0, 0, 0, 127, 255, 240, 0, 0, 0, 0, 0, 0, 0, 16, 0>>)])

(***************************************************************************)
(* C23                                                                     *)
(***************************************************************************)
\* A call of delete_and_next_compatible has returned
DeleteAndNextReturned == pc = "returned" /\ call.fn = "delete_and_next_compatible"

\* The first live compatible node after the deleted one in the tree as it was given, 0 if
\* there is none
NextMatch ==
    IF \E j \in (call.args[2] + 1)..Len(call.args[1]) :
           call.args[1][j].live /\ call.args[1][j].compatible
    THEN CHOOSE j \in (call.args[2] + 1)..Len(call.args[1]) :
             /\ call.args[1][j].live /\ call.args[1][j].compatible
             /\ \A k \in (call.args[2] + 1)..(j - 1) :
                    ~(call.args[1][k].live /\ call.args[1][k].compatible)
    ELSE 0

\* The node and its whole subtree are tombstoned and every other slot is as it was, at the
\* offset it had
SubtreeTombstoned ==
    /\ Len(Unwrap(ret).nodes) = Len(call.args[1])
    /\ \A j \in 1..Len(call.args[1]) :
           IF j = call.args[2] \/ InSubtree(call.args[1], call.args[2], j)
           THEN ~Unwrap(ret).nodes[j].live
           ELSE Unwrap(ret).nodes[j] = call.args[1][j]

\* C23 as stated: the call tombstones the node and its subtree, moves no other node, and
\* returns None or a handle to a node that is live after the deletion and is the next
\* compatible match in document order.
C23_Original ==
    DeleteAndNextReturned
        => /\ IsOk(Unwrap(ret).result)
           /\ SubtreeTombstoned
           /\ IsSome(Val(Unwrap(ret).result))
                  => /\ Unwrap(Val(Unwrap(ret).result)) = NextMatch
                     /\ Unwrap(ret).nodes[Unwrap(Val(Unwrap(ret).result))].live

\* C23, as the code has it: the call tombstones the node and its subtree and moves no
\* other node; it returns the next compatible match in document order of the tree before
\* the deletion, None if there is none, and the returned node is live after the deletion
\* exactly when it lies outside the deleted subtree.  The Internal error is never returned.
C23_NextMatchOfTheTreeBeforeDeletion ==
    DeleteAndNextReturned
        => /\ IsOk(Unwrap(ret).result)
           /\ SubtreeTombstoned
           /\ Val(Unwrap(ret).result) = (IF NextMatch = 0 THEN None ELSE Some(NextMatch))
           /\ NextMatch # 0
                  => (Unwrap(ret).nodes[NextMatch].live
                          <=> ~InSubtree(call.args[1], call.args[2], NextMatch))

\* The returned handle is a compatible subnode of the deleted node, tombstoned with it
C23_Witness ==
    /\ DeleteAndNextReturned
    /\ IsOk(Unwrap(ret).result)
    /\ IsSome(Val(Unwrap(ret).result))
    /\ InSubtree(call.args[1], call.args[2], Unwrap(Val(Unwrap(ret).result)))
    /\ ~Unwrap(ret).nodes[Unwrap(Val(Unwrap(ret).result))].live
    /\ \E j \in 1..Len(call.args[1]) :
           /\ j > call.args[2]
           /\ ~InSubtree(call.args[1], call.args[2], j)
           /\ Unwrap(ret).nodes[j].live

(***************************************************************************)
(* C24                                                                     *)
(***************************************************************************)
\* Whether the address is one of the collected serial addresses
SerialKnown(addr) == \E i \in 1..Len(info.serial_info.addrs) : info.serial_info.addrs[i] = addr

\* The template's serial nodes whose address is known, in document order
RECURSIVE KnownTemplateSerials(_)
KnownTemplateSerials(nodes) ==
    IF Len(nodes) = 0 THEN <<>>
    ELSE (IF SerialKnown(Unwrap(nodes[1].reg)[1].addr) THEN <<nodes[1]>> ELSE <<>>)
             \o KnownTemplateSerials(Tail(nodes))

\* C24: read_serial_info_from collects the first reg address of the first "ns16550a" nodes
\* of the input, at most MAX_SERIALS of them; after patch_serial_info every "ns16550a"
\* node left in the output has a collected address and every serial node of the template
\* with a collected address is kept.
C24_SerialsKeptIffKnown ==
    /\ Passed("read_serial_info_from")
           => /\ Len(info.serial_info.addrs) <= MAX_SERIALS
              /\ Len(info.serial_info.addrs) =
                     (IF Len(input.serial) < MAX_SERIALS THEN Len(input.serial) ELSE MAX_SERIALS)
              /\ \A k \in 1..Len(info.serial_info.addrs) :
                     /\ IsSome(input.serial[k].reg)
                     /\ Len(Unwrap(input.serial[k].reg)) > 0
                     /\ info.serial_info.addrs[k] = Unwrap(input.serial[k].reg)[1].addr
    /\ Passed("patch_device_tree")
           => /\ \A k \in 1..Len(fdt.serial) : SerialKnown(Unwrap(fdt.serial[k].reg)[1].addr)
              /\ \A k \in 1..Len(Template.serial) :
                     SerialKnown(Unwrap(Template.serial[k].reg)[1].addr)
                         => \E j \in 1..Len(fdt.serial) : fdt.serial[j] = Template.serial[k]
              /\ fdt.serial = KnownTemplateSerials(Template.serial)

\* The input has a serial port of the template and one unknown to it: the output keeps
\* the template's node of the first and has lost the three others
C24_Witness ==
    /\ pc = "done"
    /\ info.serial_info.addrs = <<U64(760), U64(4096)>>
    /\ fdt.serial = <<SerialNode(U64(760))>>

\* The input has more serial ports than MAX_SERIALS: the fifth address is not collected
C24_WitnessMany ==
    /\ Passed("patch_device_tree")
    /\ Len(input.serial) = 5
    /\ Len(info.serial_info.addrs) = 4

(***************************************************************************)
(* C25                                                                     *)
(***************************************************************************)
\* C25 as stated, for one table: the entry of an inode is in the table exactly while more
\* opens than releases of it have succeeded.
GoneWhenAllReleased(table, opens, releases) ==
    \A inode \in Inodes : (inode \in DOMAIN table) <=> opens[inode] > releases[inode]

C25_Original ==
    pc = "serving"
        => /\ GoneWhenAllReleased(open_files, history["open"], history["release"])
           /\ GoneWhenAllReleased(open_dirs, history["opendir"], history["releasedir"])

\* What the handlers keep, for one table: an entry stays while an open is not released;
\* when there is no entry every open has been released; an entry counts at least the
\* opens that are not released, and exactly one open only if no release has succeeded
\* since it was inserted.
KeptWhileOpen(table, opens, releases) ==
    \A inode \in Inodes :
        /\ opens[inode] > releases[inode] => inode \in DOMAIN table
        /\ inode \notin DOMAIN table => opens[inode] = releases[inode]
        /\ inode \in DOMAIN table
               => /\ table[inode].open_count >= 1
                  /\ table[inode].open_count <= opens[inode]
                  /\ table[inode].open_count >= opens[inode] - releases[inode]
                  /\ table[inode].open_count = 1 => opens[inode] = releases[inode] + 1

\* C25, as the code has it: an entry of open_files or open_dirs is kept while at least one
\* open is not released, and is removed by the release that follows a single open; a
\* release of an entry opened more than once succeeds and leaves the entry and its count
\* as they are, so the count never goes down and the entry can outlive its last release.
C25_KeptWhileOpenAndBeyond ==
    pc = "serving"
        => /\ KeptWhileOpen(open_files, history["open"], history["release"])
           /\ KeptWhileOpen(open_dirs, history["opendir"], history["releasedir"])

\* Two opens and two releases of the file have succeeded and its entry is still cached,
\* with a count of 2
C25_Witness ==
    /\ pc = "serving"
    /\ history["open"][2] = 2
    /\ history["release"][2] = 2
    /\ 2 \in DOMAIN open_files
    /\ open_files[2].open_count = 2

\* The same for the root directory
C25_WitnessDir ==
    /\ pc = "serving"
    /\ history["opendir"][1] = 2
    /\ history["releasedir"][1] = 2
    /\ 1 \in DOMAIN open_dirs
    /\ open_dirs[1].open_count = 2

(***************************************************************************)
(* C26                                                                     *)
(***************************************************************************)
\* A call of from_vbmeta has returned
FromVbmetaReturned == pc = "returned" /\ call.fn = "from_vbmeta"

\* The i-th descriptor cannot be stored after those before it: it is invalid, neither a
\* hash nor a property descriptor, a hash descriptor of an unknown partition or of the
\* partition of an earlier hash descriptor, or a second property descriptor
Refused(ds, i) ==
    \/ ~ds[i].valid
    \/ ds[i].tag \notin {"hash", "property"}
    \/ ds[i].tag = "hash" /\ ds[i].partition_name = "unknown"
    \/ \E j \in 1..(i - 1) :
           /\ ds[j].tag = ds[i].tag
           /\ ds[i].tag = "hash" => ds[j].partition_name = ds[i].partition_name

\* The descriptors of the collection, hash descriptors first
Stored(descriptors) == descriptors.hash_descriptors \o descriptors.prop_descriptor

\* C26: the collection from_vbmeta returns holds every descriptor of the image, with at
\* most one hash descriptor per partition name and at most one property descriptor;
\* from_vbmeta returns an error exactly when the image is malformed or holds a descriptor
\* that cannot be stored, a duplicate of either kind or one that is neither hash nor
\* property among them, and at the first such descriptor the enumeration ends: the error
\* is that of the first one and nothing after it is looked at.
C26_AtMostOnePerPartitionAndOneProperty ==
    FromVbmetaReturned
        => LET ds == call.args[1].descriptors
               bad == {i \in 1..Len(ds) : Refused(ds, i) \/ call.args[1].malformed_at = i}
               first == CHOOSE i \in bad : \A j \in bad : i <= j
               done == avb_descriptor_foreach(call.args[1], 1, Ok(DefaultDescriptors))
           IN  /\ IsOk(Unwrap(ret)) <=> bad = {}
               /\ IsOk(Unwrap(ret))
                      => /\ \A i, j \in 1..Len(Val(Unwrap(ret)).hash_descriptors) :
                                Val(Unwrap(ret)).hash_descriptors[i].partition_name
                                    = Val(Unwrap(ret)).hash_descriptors[j].partition_name
                                    => i = j
                         /\ Len(Stored(Val(Unwrap(ret)))) = Len(ds)
                         /\ \A i \in 1..Len(ds) : \E j \in 1..Len(ds) :
                                Stored(Val(Unwrap(ret)))[j] = ds[i]
               /\ IsErr(Unwrap(ret))
                      => /\ done.calls = (IF call.args[1].malformed_at = first
                                          THEN first - 1 ELSE first)
                         /\ IsErr(done.res) <=> call.args[1].malformed_at # first
                         /\ Val(Unwrap(ret)) =
                                (IF call.args[1].malformed_at = first THEN <<"InvalidMetadata">>
                                 ELSE IF ~ds[first].valid THEN <<"InvalidDescriptors", "Io">>
                                 ELSE IF \/ ds[first].tag \notin {"hash", "property"}
                                         \/ ds[first].partition_name = "unknown"
                                 THEN <<"InvalidDescriptors", "NoSuchValue">>
                                 ELSE <<"InvalidDescriptors", "Io">>)

\* A hash descriptor is followed by a second one of the same partition and then by a
\* descriptor that alone would give another error: from_vbmeta returns the error of the
\* duplicate
C26_Witness ==
    /\ FromVbmetaReturned
    /\ Len(call.args[1].descriptors) = 3
    /\ call.args[1].malformed_at = 0
    /\ call.args[1].descriptors[1].tag = "hash"
    /\ call.args[1].descriptors[1].valid
    /\ call.args[1].descriptors[2] = call.args[1].descriptors[1]
    /\ call.args[1].descriptors[3].tag = "other"
    /\ Unwrap(ret) = Err(<<"InvalidDescriptors", "Io">>)

(***************************************************************************)
(* C27                                                                     *)
(***************************************************************************)
\* The restoration of the snapshot has ended, by a return or by a panic
RestoreBackupReturned == pc = "returned" /\ call.fn = "restore_backup"

CpuMask(n) == IF n >= 8 THEN 65280 ELSE (2 ^ n - 1) * 256

\* The interrupts of the template's timer with the CPU mask added to each third cell,
\* whose bits 8..15 the template leaves clear
MaskedInterrupts(n) ==
    [i \in 1..(NUM_INTERRUPTS * CELLS_PER_INTERRUPT) |->
        IF i \in {3, 6, 9, 12}
        THEN Unwrap(Unwrap(Template.timer).interrupts)[i] + CpuMask(n)
        ELSE Unwrap(Unwrap(Template.timer).interrupts)[i]]

\* The CPU count that reaches patch_timer is at least 1 and at most the number of
\* "arm,arm-v8" nodes of the template; when it is below 32, patch_timer ORs the CPU mask
\* into the third cell of each of the four timer interrupts and leaves the other cells.
\* Whether a count of 32 or more reaches patch_timer hangs on the template.
TimerMaskBelow32 ==
    pc = "patch_device_tree"
        => LET before == PatchedBefore(fdt, 1, PatchIndex("patch_timer"), info)
           IN  IsOk(before)
                   => /\ U64ToNat(info.num_cpus) >= 1
                      /\ U64ToNat(info.num_cpus) <= TemplateNumCpus
                      /\ (U64ToNat(info.num_cpus) < 32)
                             => patch_timer(Val(before), info.num_cpus) =
                                    Wrote([Val(before) EXCEPT !.timer = Some([interrupts |->
                                        Some(MaskedInterrupts(U64ToNat(info.num_cpus)))])])

\* 3 CPUs have reached patch_timer: the mask is 0x700
TimerMaskBelow32Witness ==
    /\ pc = "done"
    /\ info.num_cpus = U64(3)
    /\ Unwrap(Unwrap(fdt.timer).interrupts)[12]
           = Unwrap(Unwrap(Template.timer).interrupts)[12] + 1792

\* A validated CPU count above the number of "arm,arm-v8" nodes of the template makes
\* patch_num_cpus fail with NoSpace, and the sanitization ends before patch_gic.  For a
\* count that reaches patch_gic, the second reg range is written with the size
\* N * 128 KiB and the address of the first range less that size when the first range
\* lies that high; when it lies lower, the subtraction panics in a build that checks
\* overflow and wraps in one that does not.  Which of the two happens hangs on the
\* template.
GicRangeByTemplate ==
    /\ pc = "patch_device_tree"
           => LET before == PatchedBefore(fdt, 1, PatchIndex("patch_gic"), info)
                  n == info.num_cpus
                  size == U64(U64ToNat(n) * 131072)
                  base == Unwrap(Unwrap(Template.gic).reg)[1]
              IN  /\ U64ToNat(n) > TemplateNumCpus
                         => /\ IsErr(before)
                            /\ IsErr(PatchedBefore(fdt, 1, PatchIndex("patch_num_cpus"), info))
                                   \/ (/\ Val(before) = "NoSpace"
                                       /\ patch_num_cpus(
                                              Val(PatchedBefore(
                                                  fdt, 1, PatchIndex("patch_num_cpus"), info)),
                                              n).result = Err("NoSpace"))
                            /\ IsErr(patch_device_tree(fdt, info).result)
                  /\ IsOk(before)
                         => /\ U64ToNat(n) <= TemplateNumCpus
                            /\ patch_gic(Val(before), n) =
                                   (IF overflow_checks /\ U64Lt(base.addr, size)
                                    THEN Left(Panic, Val(before))
                                    ELSE Wrote([Val(before) EXCEPT !.gic = Some([reg |-> Some(
                                             <<base,
                                               Reg(SubWithBorrow(base.addr, size).diff,
                                                   size)>>)])]))
    /\ (InSanitize /\ Passed("validate_num_cpus") /\ Passed("unpack")
            /\ U64ToNat(info.num_cpus) > TemplateNumCpus)
           => pc \in {"apply_overlay", "patch_device_tree", "failed"}

\* An input with as many CPUs as a template of 4 has been sanitized: the second range is
\* 512 KiB wide and ends where the first begins
GicRangeWitness ==
    /\ pc = "done"
    /\ U64ToNat(info.num_cpus) = TemplateNumCpus
    /\ Unwrap(Unwrap(fdt.gic).reg)[2].size = U64(524288)
    /\ AddWithCarry(Unwrap(Unwrap(fdt.gic).reg)[2].addr, U64(524288)).sum
           = Unwrap(Unwrap(fdt.gic).reg)[1].addr

\* An input with one CPU more than the template: patch_device_tree has failed
GicNoSpaceWitness ==
    /\ FailedAt("patch_device_tree")
    /\ U64ToNat(info.num_cpus) = TemplateNumCpus + 1

\* In a template of 8 CPU nodes whose GIC begins at 0x8_0000, the redistributors of 5
\* CPUs have no room below it: patch_gic has panicked in a build that checks overflow
GicUnderflowWitness ==
    /\ pc = "panicked"
    /\ overflow_checks
    /\ info.num_cpus = U64(5)
    /\ Unwrap(Unwrap(Template.gic).reg)[1].addr = U64(524288)

\* and in a build that does not, the second range begins at the wrapped address
GicWrappedWitness ==
    /\ pc = "done"
    /\ ~overflow_checks
    /\ info.num_cpus = U64(5)
    /\ Unwrap(Unwrap(fdt.gic).reg)[2].addr = <<65535, 65535, 65534, 0>>

(***************************************************************************)
(* C30                                                                     *)
(***************************************************************************)
\* A call of patch_swiotlb_info has ended, by a return or by a panic
PatchSwiotlbInfoReturned == pc = "returned" /\ call.fn = "patch_swiotlb_info"

\* The node holds one encoding of the pool and not the other
OneEncoding(node) ==
    \/ IsSome(node.reg) /\ IsNone(node.size) /\ IsNone(node.alignment)
    \/ IsNone(node.reg) /\ IsSome(node.size) /\ IsSome(node.alignment)

C30_WitnessFixedRange ==
    /\ PatchSwiotlbInfoReturned
    /\ IsSome(call.args[2].addr)
    /\ IsOk(PatchRet)
    /\ IsNone(Unwrap(Val(PatchRet).swiotlb).size)
    /\ IsSome(Unwrap(Val(PatchRet).swiotlb).reg)

(***************************************************************************)
(* Buffers shorter than the template, and panics.                          *)
(***************************************************************************)
\* sanitize_device_tree refuses with InvalidFdt, and leaves as it was, an accepted input
\* in a buffer shorter than the template; in any other buffer the template is copied and
\* the buffer keeps its length
ShortBufferRefused ==
    /\ FailedAt("copy_from_slice")
           => /\ input.buffer_len < Template.buffer_len
              /\ fdt = input
              /\ result = Some(InvalidFdt)
    /\ Passed("copy_from_slice")
           => /\ input.buffer_len >= Template.buffer_len
              /\ fdt.buffer_len = input.buffer_len

\* An accepted input in a buffer shorter than the template has been refused
ShortBufferRefusedWitness ==
    /\ FailedAt("copy_from_slice")
    /\ IsOk(parse_device_tree(input, vm_dtbo))

\* a < 2^32
FitsU32(a) == a[1] = 0 /\ a[2] = 0

\* The panics of the statements of patch_device_tree: patch_initrd_range on an end
\* beyond 32 bits; patch_timer on a CPU count beyond 32 bits and, in a build that checks
\* overflow, from 32 CPUs on; patch_gic on a CPU count whose size overflows and, in a
\* build that checks overflow, on a first range below the size.  An interrupts property
\* that is not 12 cells long makes patch_timer return NoSpace.  A run of
\* sanitize_device_tree panics in a build that checks overflow only, and in patch_gic or
\* patch_timer.
PatchStatementPanics ==
    /\ pc = "panicked"
           => /\ overflow_checks
              /\ \/ U64Lt(Unwrap(Unwrap(Template.gic).reg)[1].addr,
                          U64(U64ToNat(info.num_cpus) * 131072))
                 \/ U64ToNat(info.num_cpus) >= 32
    /\ (pc = "returned" /\ call.fn = "patch_initrd_range")
           => /\ IsPanic(PatchRet)
                     <=> ~(FitsU32(call.args[2].start) /\ FitsU32(call.args[2].end))
              /\ PatchRet = Err("NotFound")
                     <=> /\ FitsU32(call.args[2].start) /\ FitsU32(call.args[2].end)
                         /\ IsNone(call.args[1].chosen)
    /\ (pc = "returned" /\ call.fn = "patch_timer"
           /\ IsSome(call.args[1].timer) /\ IsSome(Unwrap(call.args[1].timer).interrupts))
           => LET n == call.args[2]
                  wide == ~FitsU32(n) \/ (overflow_checks /\ (n[3] # 0 \/ n[4] >= 32))
              IN  /\ IsPanic(PatchRet) <=> wide
                  /\ PatchRet = Err("NoSpace")
                         <=> /\ ~wide
                             /\ Len(Unwrap(Unwrap(call.args[1].timer).interrupts))
                                    # NUM_INTERRUPTS * CELLS_PER_INTERRUPT
                  /\ (IsOk(PatchRet) /\ n[4] % 32 = 0)
                         => Val(PatchRet).timer = call.args[1].timer
    /\ (pc = "returned" /\ call.fn = "patch_gic" /\ IsSome(call.args[1].gic)
           /\ IsSome(Unwrap(call.args[1].gic).reg)
           /\ Len(Unwrap(Unwrap(call.args[1].gic).reg)) >= 2)
           => LET addr == Unwrap(Unwrap(call.args[1].gic).reg)[1].addr
                  size == gic_patched_size(call.args[2])
              IN  IsPanic(PatchRet)
                      <=> \/ IsNone(size)
                          \/ overflow_checks /\ U64Lt(addr, Unwrap(size))
    /\ (pc = "returned" /\ call.fn = "patch_device_tree" /\ IsPanic(PatchRet))
           => \/ /\ IsSome(call.args[2].initrd_range)
                 /\ ~FitsU32(Unwrap(call.args[2].initrd_range).end)
              \/ overflow_checks

\* patch_timer has returned Ok for 32 CPUs, with no bit added, in a build that does not
\* check overflow
PatchStatementPanicsWitness ==
    /\ pc = "returned" /\ call.fn = "patch_timer"
    /\ call.args[2] = U64(32)
    /\ ~overflow_checks
    /\ IsOk(PatchRet)

\* patch_timer has panicked on 32 CPUs in a build that checks overflow
PatchStatementPanicsWitnessChecked ==
    /\ pc = "returned" /\ call.fn = "patch_timer"
    /\ call.args[2] = U64(32)
    /\ overflow_checks
    /\ IsPanic(PatchRet)

\* patch_device_tree has panicked on an initrd range that ends beyond 32 bits
PatchDeviceTreePanicWitness ==
    /\ pc = "returned" /\ call.fn = "patch_device_tree"
    /\ IsPanic(PatchRet)
    /\ IsSome(call.args[2].initrd_range)

(***************************************************************************)
(* Writes that make the blob grow, and the room they need.                 *)
(***************************************************************************)
\* The bytes the two initrd properties, the bootargs, the node added for the vendor
\* public key and the key take in a tree that has none of them
InitrdStartBytes == 12 + 4 + Len("linux,initrd-start") + 1
InitrdEndBytes == 12 + 4 + Len("linux,initrd-end") + 1
BootargsBytes(bootargs) == 12 + FDT_TAGALIGN(Len(bootargs) + 1) + Len("bootargs") + 1
AvfNodeBytes == 4 + FDT_TAGALIGN(Len("/avf") + 1) + 4
VendorKeyBytes(key) == 12 + FDT_TAGALIGN(Len(key)) + Len("vendor_public_key") + 1

\* The blob never takes more than its buffer.  patch_initrd_range on a /chosen without
\* the two properties returns NoSpace unless the blob has the free bytes that both take,
\* and has written linux,initrd-start when there was room for it alone; a packed blob
\* has no free byte.  patch_device_tree returns InvalidFdt when the bootargs or the
\* vendor public key find no room, and leaves what the statements before have written:
\* the memory range, and for the key also the trimmed interrupt tables and the node
\* added for it.  sanitize_device_tree returns InvalidFdt on an accepted input with
\* bootargs whose buffer is not longer than the template by what the bootargs take.
NoSpaceLeavesWrites ==
    /\ (pc = "returned" /\ call.fn \in {"patch_initrd_range", "patch_device_tree"})
           => Unwrap(ret).fdt.used <= Unwrap(ret).fdt.buffer_len
    /\ (InSanitize /\ Passed("copy_from_slice")) => fdt.used <= fdt.buffer_len
    /\ (pc = "returned" /\ call.fn = "patch_initrd_range"
           /\ FitsU32(call.args[2].start) /\ FitsU32(call.args[2].end)
           /\ call.args[1].chosen = Template.chosen)
           => LET t == call.args[1]
                  r == Unwrap(ret)
              IN  /\ r.result = Err("NoSpace") <=> FreeBytes(t) < InitrdStartBytes + InitrdEndBytes
                  /\ ~t.unpacked => r.result = Err("NoSpace") /\ r.fdt = t
                  /\ r.result = Err("NoSpace")
                         => /\ IsNone(Unwrap(r.fdt.chosen).initrd_end)
                            /\ IsSome(Unwrap(r.fdt.chosen).initrd_start)
                                   <=> FreeBytes(t) >= InitrdStartBytes
                  /\ IsOk(r.result)
                         => FreeBytes(r.fdt) = FreeBytes(t) - InitrdStartBytes - InitrdEndBytes
    /\ (pc = "returned" /\ call.fn = "patch_device_tree"
           /\ call.args[1].memory = Template.memory /\ call.args[1].gic = Template.gic
           /\ IsNone(call.args[2].initrd_range) /\ IsSome(call.args[2].swiotlb_info.align))
           => LET t == call.args[1]
                  di == call.args[2]
                  r == Unwrap(ret)
                  trimmed == 4 * ((MAX_IRQS - Len(di.pci_info.irq_masks)) * IRQ_MASK_CELLS
                                  + (MAX_IRQS - Len(di.pci_info.irq_maps)) * IRQ_MAP_CELLS)
              IN  IF IsSome(di.bootargs) /\ FreeBytes(t) < BootargsBytes(Unwrap(di.bootargs))
                  THEN /\ r.result = InvalidFdt
                       /\ r.fdt = [t EXCEPT !.memory = r.fdt.memory]
                       /\ RegBytes(Unwrap(Unwrap(r.fdt.memory).reg))
                              = ExpectedMemoryReg(di.memory_range)
                  ELSE IF IsNone(di.bootargs) /\ IsSome(di.vendor_public_key)
                  THEN /\ IsOk(r.result)
                              <=> FreeBytes(t) + trimmed
                                      >= AvfNodeBytes + VendorKeyBytes(Unwrap(di.vendor_public_key))
                       /\ IsErr(r.result)
                              => /\ r.result = InvalidFdt
                                 /\ NumCompatible(r.fdt.cpus) = U64ToNat(di.num_cpus)
                                 /\ IsSome(r.fdt.slash_avf) <=> FreeBytes(t) + trimmed >= AvfNodeBytes
                                 /\ IsSome(r.fdt.slash_avf)
                                        => IsNone(Unwrap(r.fdt.slash_avf).vendor_public_key)
                       /\ IsOk(r.result)
                              => Unwrap(r.fdt.slash_avf).vendor_public_key = di.vendor_public_key
                  ELSE TRUE
    /\ (InSanitize /\ Passed("read_vendor_public_key_from") /\ IsSome(info.bootargs)
           /\ IsNone(info.initrd_range)
           /\ input.buffer_len < Template.buffer_len + BootargsBytes(Unwrap(info.bootargs)))
           => /\ pc # "done"
              /\ pc = "failed"
                     => \/ FailedAt("copy_from_slice") /\ input.buffer_len < Template.buffer_len
                        \/ FailedAt("apply_overlay")
                        \/ /\ FailedAt("patch_device_tree")
                           /\ IsNone(Unwrap(fdt.chosen).bootargs)
                           /\ NumCompatible(fdt.cpus) = TemplateNumCpus
                           /\ RegBytes(Unwrap(Unwrap(fdt.memory).reg))
                                  = ExpectedMemoryReg(info.memory_range)

\* patch_initrd_range has written linux,initrd-start and found no room for
\* linux,initrd-end
NoSpaceAfterInitrdStartWitness ==
    /\ pc = "returned" /\ call.fn = "patch_initrd_range"
    /\ Unwrap(ret).result = Err("NoSpace")
    /\ IsSome(Unwrap(Unwrap(ret).fdt.chosen).initrd_start)
    /\ IsNone(Unwrap(Unwrap(ret).fdt.chosen).initrd_end)

\* patch_device_tree has added the node for the vendor public key and found no room for
\* the key
NoSpaceAfterAddSubnodeWitness ==
    /\ pc = "returned" /\ call.fn = "patch_device_tree"
    /\ Unwrap(ret).result = InvalidFdt
    /\ Unwrap(ret).fdt.slash_avf = Some([vendor_public_key |-> None])

\* patch_device_tree has set the vendor public key in a buffer as long as the template,
\* in the room that the trimmed interrupt tables have left
RoomFromTrimpropWitness ==
    /\ pc = "returned" /\ call.fn = "patch_device_tree"
    /\ call.args[1].buffer_len = Template.buffer_len
    /\ IsOk(Unwrap(ret).result)
    /\ IsSome(Unwrap(ret).fdt.slash_avf)

\* sanitize_device_tree has failed in patch_device_tree on an accepted input with
\* bootargs in a buffer as long as the template, with the memory range written
NoSpaceInSanitizeWitness ==
    /\ FailedAt("patch_device_tree")
    /\ input.buffer_len = Template.buffer_len
    /\ IsSome(info.bootargs)
    /\ Unwrap(Unwrap(fdt.memory).reg)[1].addr = MEM_START

\* sanitize_device_tree has ended well on an input with bootargs in a buffer just long
\* enough for them
JustEnoughRoomWitness ==
    /\ pc = "done"
    /\ input.buffer_len = Template.buffer_len + BootargsBytes("panic=-1")
    /\ Unwrap(fdt.chosen).bootargs = Some([nul_terminated |-> TRUE, text |-> "panic=-1"])

\* patch_dice_node has refused a tree without the magic
C22_WitnessBadMagic ==
    /\ pc = "returned" /\ call.fn = "patch_dice_node"
    /\ ~call.args[1].valid
    /\ Unwrap(ret) = Err("BadMagic")
====
